---- MODULE Spec2Model ----
(***************************************************************************)
(* A model of the task orchestration core of taskflow: the StateMachine,   *)
(* the TaskRepository (store), the DependencyChecker, the WorkerPool, the  *)
(* Scheduler and the TaskService facade.                                   *)
(*                                                                         *)
(* The store and the model package (Task.IsTerminal, Task.CanRetry,        *)
(* NewTask) are not among the repository's files under src/; they are      *)
(* modelled from the specification's words and from their tests            *)
(* (src/internal/repository/repository_test.go, src/unnamed/part_004).     *)
(***************************************************************************)
EXTENDS Integers, Sequences, FiniteSets, TLC

(***************************************************************************)
(* Bounds of the model.                                                    *)
(***************************************************************************)
\* Number of task ids the service can assign.
MaxTasks == 2
\* Largest stored retry_count / max_retries drawn or reached.
MaxRetryCount == 2
\* TaskService instances (each with its own Scheduler) sharing the store.
NumSchedulers == 2
\* Size of each scheduler's WorkerPool (NewWorkerPool(10) in NewScheduler,
\* scaled down; the queue keeps the code's capacity of twice the size).
WorkerCount == 1
\* pollingLoop goroutines of one scheduler that have not returned.
MaxPollingLoops == 2
\* Concurrent callers of the TaskService facade.
NumClients == 1
\* UpdateTask, CancelTask and RetryTask calls made in a run.
MaxCalls == 2
\* Longest dependency list given to CreateTask.
MaxDeps == 1

(***************************************************************************)
(* Data: model.TaskStatus and the task record.                             *)
(***************************************************************************)
Statuses ==
    {"UNSPECIFIED", "PENDING", "RUNNING", "SUCCEEDED", "FAILED", "CANCELLED", "TIMEOUT"}

\* Ids CreateTask assigns (uuid.New(): fresh and unique).
ServiceIds == 1..MaxTasks

\* Ids of a backlog large enough to fill one pool: a handler in each worker,
\* a full queue and one more.
BacklogIds == 1..(3 * WorkerCount + 1)

TaskIds == ServiceIds \cup BacklogIds

\* A *time.Time field: nil, a stamp taken earlier, or the stamp taken by the
\* call in progress.
NilTime == "nil"
OldTime == "old"
NowTime == "now"

(***************************************************************************)
(* StateMachine (state_machine.go).                                        *)
(***************************************************************************)
\* initTransitions: the allowed targets of every status, in the code's order.
transitions ==
    [s \in Statuses |->
        CASE s = "PENDING"     -> <<"RUNNING", "CANCELLED">>
          [] s = "RUNNING"     -> <<"SUCCEEDED", "FAILED", "TIMEOUT", "CANCELLED">>
          [] s = "FAILED"      -> <<"PENDING", "CANCELLED">>
          [] s = "SUCCEEDED"   -> <<>>
          [] s = "CANCELLED"   -> <<>>
          [] s = "TIMEOUT"     -> <<>>
          [] s = "UNSPECIFIED" -> <<"PENDING">>]

\* Mutant: the retry edge is written from RUNNING instead of from FAILED.
CanTransitionRetryFromRunning(from, to) ==
    \/ /\ from \in DOMAIN transitions
       /\ \E i \in 1..Len(transitions[from]) : transitions[from][i] = to
       /\ ~(from = "FAILED" /\ to = "PENDING")
    \/ from = "RUNNING" /\ to = "PENDING"

\* CanTransition: a lookup of `to` in the list of `from`.
CanTransition(from, to) ==
    /\ from \in DOMAIN transitions
    /\ \E i \in 1..Len(transitions[from]) : transitions[from][i] = to

\* postTransition: the hooks run after task.Status has been set.
postTransition(task, from, to, now) ==
    LET hooked ==
            CASE to = "RUNNING"   -> [task EXCEPT !.startedAt = now]
              [] to = "SUCCEEDED" -> [task EXCEPT !.completedAt = now,
                                                  !.errorMessage = ""]
              [] to = "FAILED"    -> [task EXCEPT !.retryCount = @ + 1]
              [] to \in {"CANCELLED", "TIMEOUT"} ->
                    IF task.startedAt # NilTime /\ task.completedAt = NilTime
                    THEN [task EXCEPT !.completedAt = now]
                    ELSE task
              [] OTHER -> task
    IN  [hooked EXCEPT !.updatedAt = now]

\* Mutant: the status is assigned before the pair is validated.
TransitionAssignsFirst(task, toStatus, now) ==
    IF ~CanTransition(task.status, toStatus)
    THEN [err |-> TRUE, task |-> [task EXCEPT !.status = toStatus]]
    ELSE [err |-> FALSE,
          task |-> postTransition([task EXCEPT !.status = toStatus],
                                  task.status, toStatus, now)]

\* Transition: validate, set the status, run the hooks. The result is the
\* error flag and the task as the caller's pointer sees it afterwards.
\* (preTransition has no effect and never fails.)
Transition(task, toStatus, now) ==
    IF ~CanTransition(task.status, toStatus)
    THEN [err |-> TRUE, task |-> task]
    ELSE [err |-> FALSE,
          task |-> postTransition([task EXCEPT !.status = toStatus],
                                  task.status, toStatus, now)]

\* StateMachine.IsTerminal.
SMIsTerminal(status) ==
    status \in {"SUCCEEDED", "FAILED", "CANCELLED", "TIMEOUT"}

(***************************************************************************)
(* model.Task helpers (model package; from its tests).                     *)
(***************************************************************************)
\* Task.IsTerminal: TestTask_IsTerminal expects true for FAILED too.
TaskIsTerminal(task) ==
    task.status \in {"SUCCEEDED", "FAILED", "CANCELLED", "TIMEOUT"}

\* Mutant: the comparison with max_retries is off by one.
TaskCanRetryOneShort(task) ==
    task.status = "FAILED" /\ task.retryCount + 1 < task.maxRetries

\* Task.CanRetry: FAILED and retry_count < max_retries.
TaskCanRetry(task) ==
    task.status = "FAILED" /\ task.retryCount < task.maxRetries

\* NewTask: a PENDING task with zero retries; the caller sets the id.
NewTask(deps, maxRetries) ==
    [status |-> "PENDING", deps |-> deps, retryCount |-> 0,
     maxRetries |-> maxRetries, startedAt |-> NilTime, completedAt |-> NilTime,
     errorMessage |-> "", outputResult |-> "", updatedAt |-> NowTime]

\* The value GetByID returns for an id with no row (nil, and no error).
NoTask == [status |-> "absent"]

(***************************************************************************)
(* TaskRepository (the store). A store is a function from the ids that     *)
(* have a row to task records; the event table is a sequence of events per *)
(* task id in timestamp order (GetEventsByTaskID's order).                 *)
(***************************************************************************)
\* GetByID: the row, or nil without an error when there is none.
GetByID(store, id) ==
    IF id \in DOMAIN store THEN store[id] ELSE NoTask

\* Delete: remove the row; GetByID finds nothing afterwards. Idempotent.
RepoDelete(store, id) ==
    [i \in DOMAIN store \ {id} |-> store[i]]

\* Create: insert a row; AlreadyExists on a duplicate id.
RepoCreate(store, id, task) ==
    IF id \in DOMAIN store
    THEN [ok |-> FALSE, tasks |-> store]
    ELSE [ok |-> TRUE, tasks |-> [i \in DOMAIN store \cup {id} |->
                                     IF i = id THEN task ELSE store[i]]]

\* Update: full-record overwrite of the row (the status included, as
\* TestTaskRepository_Update shows); NotFound when the row is absent.
RepoUpdate(store, id, task) ==
    IF id \in DOMAIN store
    THEN [ok |-> TRUE, tasks |-> [store EXCEPT ![id] = task]]
    ELSE [ok |-> FALSE, tasks |-> store]

\* Mutant: the status is written whatever the row's current status is.
UpdateStatusUnconditional(store, id, from, to) ==
    IF id \in DOMAIN store
    THEN [ok |-> TRUE, tasks |-> [store EXCEPT ![id].status = to]]
    ELSE [ok |-> FALSE, tasks |-> store]

\* UpdateStatus: compare-and-swap on the status field.
UpdateStatus(store, id, from, to) ==
    IF id \in DOMAIN store /\ store[id].status = from
    THEN [ok |-> TRUE, tasks |-> [store EXCEPT ![id].status = to]]
    ELSE [ok |-> FALSE, tasks |-> store]

\* A TaskEvent (its id and timestamp are the position in the log).
Event(from, to, operator, message) ==
    [from |-> from, to |-> to, operator |-> operator, message |-> message]

\* AddEvent: append to the task's log.
AddEvent(log, id, ev) ==
    [log EXCEPT ![id] = Append(@, ev)]

\* Mutant: the event is appended even when the compare-and-swap loses.
UpdateStatusWithEventAlwaysLogs(store, log, id, from, to, operator, message) ==
    LET cas == UpdateStatus(store, id, from, to)
    IN  [ok |-> cas.ok, tasks |-> cas.tasks,
         events |-> AddEvent(log, id, Event(from, to, operator, message))]

\* UpdateStatusWithEvent: the compare-and-swap and the event append as one
\* atomic unit: both happen or neither.
UpdateStatusWithEvent(store, log, id, from, to, operator, message) ==
    LET cas == UpdateStatus(store, id, from, to)
    IN  IF cas.ok
        THEN [ok |-> TRUE, tasks |-> cas.tasks,
              events |-> AddEvent(log, id, Event(from, to, operator, message))]
        ELSE [ok |-> FALSE, tasks |-> store, events |-> log]

VARIABLES
    tasks,      \* the tasks table: id -> row
    events,     \* the task_events table: id -> log in timestamp order
    running,    \* Scheduler.running, per scheduler
    queue,      \* WorkerPool.tasks (the buffered channel), per scheduler
    worker,     \* each pool goroutine: where it is in executeTask
    thread,     \* each facade caller and each poll loop: where it is in its call
    handed,     \* per task id: Submit calls that accepted it
    ran,        \* per task id: executeTaskHandler invocations
    calls,      \* UpdateTask, CancelTask and RetryTask calls made so far
    closed,     \* per scheduler: WorkerPool.tasks has been closed
    finished,   \* Scheduler.finishedCnt, per scheduler
    repoCall,   \* the repository call a test driver made last, and its result
    probe,      \* a StateMachine call on a caller-built task: input and result
    pollingLoop \* per scheduler: its pollingLoop goroutines, by where each is

storeVars == <<tasks, events>>
sysVars == <<running, queue, worker, thread, handed, ran, calls, closed,
            finished, pollingLoop>>
vars == <<tasks, events, running, queue, worker, thread, handed, ran, calls,
          closed, finished, repoCall, probe, pollingLoop>>

Schedulers == 1..NumSchedulers

\* The pool goroutines: (scheduler, index).
Workers == Schedulers \X (1..WorkerCount)

\* The poll loop goroutine of scheduler s is thread -s; the facade callers
\* are threads 1..NumClients and use the first TaskService.
Pollers == {0 - s : s \in Schedulers}
Clients == 1..NumClients
Threads == Pollers \cup Clients
SchedOf(th) == IF th < 0 THEN 0 - th ELSE 1

\* make(chan string, size*2)
QueueCap == 2 * WorkerCount

\* Scheduler.maxPending, the limit of each poll's listing.
maxPending == 100

NoRet == [op |-> "none", tid |-> 0, ok |-> FALSE, from |-> ""]

\* A thread with no call in progress.
IdleThread ==
    [op |-> "idle", pc |-> "idle", tid |-> 0, snap |-> NoTask, arg |-> "",
     msg |-> FALSE, from |-> "", deps |-> <<>>, di |-> 0, list |-> <<>>,
     ret |-> NoRet]

\* A pool goroutine blocked on the queue.
IdleWorker == [pc |-> "idle", tid |-> 0, snap |-> NoTask, retry |-> FALSE]

\* The pollingLoop goroutines of a scheduler: `started` ones are not at
\* their select (just spawned by Start, or inside pollPendingTasks), `waiting`
\* ones are blocked in the select on the context they read from s.ctx when
\* they entered it, `cancelled` ones are blocked on a context that has been
\* cancelled since.
NoLoops == [started |-> 0, waiting |-> 0, cancelled |-> 0]

\* The goroutines of schedulers whose Start has just returned.
LoopsAfterStart(run) ==
    [s \in Schedulers |-> IF run[s] THEN [NoLoops EXCEPT !.started = 1] ELSE NoLoops]

\* The pollingLoop goroutines of scheduler s that have not returned.
LoopCount(s) ==
    pollingLoop[s].started + pollingLoop[s].waiting + pollingLoop[s].cancelled

\* The scheduler side with nothing constructed or called yet.
SysIdle ==
    /\ running = [s \in Schedulers |-> FALSE]
    /\ queue = [s \in Schedulers |-> <<>>]
    /\ worker = [w \in Workers |-> IdleWorker]
    /\ thread = [th \in Threads |-> IdleThread]
    /\ handed = [t \in TaskIds |-> 0]
    /\ ran = [t \in TaskIds |-> 0]
    /\ calls = 0
    /\ closed = [s \in Schedulers |-> FALSE]
    /\ finished = [s \in Schedulers |-> 0]
    /\ pollingLoop = LoopsAfterStart(running)

NoCall ==
    [op |-> "none", id |-> 0, from |-> "UNSPECIFIED", to |-> "UNSPECIFIED",
     operator |-> "", message |-> "", ok |-> FALSE, n |-> 0,
     before |-> <<>>, beforeEvents |-> <<>>]

IdleProbe ==
    [phase |-> "idle", task |-> NewTask(<<>>, 0), to |-> "UNSPECIFIED",
     can |-> FALSE, err |-> FALSE, after |-> NewTask(<<>>, 0),
     terminal |-> FALSE, canRetry |-> FALSE]

NoEvents == [t \in TaskIds |-> <<>>]

(***************************************************************************)
(* SpecSM: the StateMachine applied to every task a caller can build.      *)
(***************************************************************************)
ProbeTasks ==
    [status : Statuses, deps : {<<>>}, retryCount : 0..MaxRetryCount,
     maxRetries : {MaxRetryCount}, startedAt : {NilTime, OldTime},
     completedAt : {NilTime, OldTime}, errorMessage : {"", "boom"},
     outputResult : {""}, updatedAt : {OldTime}]

SMInit ==
    /\ probe \in {[phase |-> "input", task |-> t, to |-> s, can |-> FALSE,
                   err |-> FALSE, after |-> t, terminal |-> FALSE,
                   canRetry |-> FALSE] : t \in ProbeTasks, s \in Statuses}
    /\ tasks = <<>>
    /\ events = NoEvents
    /\ repoCall = NoCall
    /\ SysIdle

\* sm.CanTransition(task.Status, to) followed by sm.Transition(task, to, op).
SMTransition ==
    /\ probe.phase = "input"
    /\ LET r == Transition(probe.task, probe.to, NowTime)
       IN  probe' = [probe EXCEPT !.phase = "done",
                                  !.can = CanTransition(probe.task.status, probe.to),
                                  !.err = r.err,
                                  !.after = r.task]
    /\ UNCHANGED <<tasks, events, repoCall>>
    /\ UNCHANGED sysVars

SMNext == SMTransition

SpecSM == SMInit /\ [][SMNext]_vars

(***************************************************************************)
(* SpecPredicates: the status predicates asked of every task a caller can  *)
(* build: StateMachine.IsTerminal(task.Status) and task.CanRetry(), as     *)
(* the table-driven tests do.                                              *)
(***************************************************************************)
\* sm.IsTerminal(tt.status) and task.CanRetry() on the same task.
AskPredicates ==
    /\ probe.phase = "input"
    /\ probe' = [probe EXCEPT !.phase = "asked",
                              !.terminal = SMIsTerminal(probe.task.status),
                              !.canRetry = TaskCanRetry(probe.task)]
    /\ UNCHANGED <<tasks, events, repoCall>>
    /\ UNCHANGED sysVars

PredicatesNext == AskPredicates

SpecPredicates == SMInit /\ [][PredicatesNext]_vars

(***************************************************************************)
(* SpecRepo: a driver calling UpdateStatus and UpdateStatusWithEvent on a  *)
(* store holding one row in any status (and on an id with no row), as the  *)
(* repository's tests do.                                                  *)
(***************************************************************************)
\* Calls one driver makes in a run.
MaxRepoCalls == 2

\* The ids the driver uses: the first has a row, the second has none.
RepoIds == {1, 2}

RepoOperators == {<<"scheduler", "task scheduled">>, <<"test-operator", "starting task">>}

RepoInit ==
    /\ tasks \in {[i \in {1} |-> [NewTask(<<>>, MaxRetryCount) EXCEPT !.status = s]] :
                    s \in Statuses}
    /\ events = NoEvents
    /\ repoCall = NoCall
    /\ probe = IdleProbe
    /\ SysIdle

RepoUpdateStatus ==
    /\ repoCall.n < MaxRepoCalls
    /\ \E id \in RepoIds, from \in Statuses, to \in Statuses :
         LET r == UpdateStatus(tasks, id, from, to)
         IN  /\ tasks' = r.tasks
             /\ repoCall' = [op |-> "UpdateStatus", id |-> id, from |-> from,
                             to |-> to, operator |-> "", message |-> "",
                             ok |-> r.ok, n |-> repoCall.n + 1,
                             before |-> tasks, beforeEvents |-> events]
    /\ UNCHANGED <<events, probe>>
    /\ UNCHANGED sysVars

RepoUpdateStatusWithEvent ==
    /\ repoCall.n < MaxRepoCalls
    /\ \E id \in RepoIds, from \in Statuses, to \in Statuses,
          om \in RepoOperators :
         LET r == UpdateStatusWithEvent(tasks, events, id, from, to, om[1], om[2])
         IN  /\ tasks' = r.tasks
             /\ events' = r.events
             /\ repoCall' = [op |-> "UpdateStatusWithEvent", id |-> id,
                             from |-> from, to |-> to, operator |-> om[1],
                             message |-> om[2], ok |-> r.ok, n |-> repoCall.n + 1,
                             before |-> tasks, beforeEvents |-> events]
    /\ UNCHANGED probe
    /\ UNCHANGED sysVars

RepoNext == RepoUpdateStatus \/ RepoUpdateStatusWithEvent

SpecRepo == RepoInit /\ [][RepoNext]_vars

(***************************************************************************)
(* The running system: facade callers, poll loops and pool goroutines      *)
(* interleaved at their store, queue and flag accesses.                    *)
(***************************************************************************)
\* The dependency lists and max_retries a caller may pass to CreateTask.
DepChoices ==
    UNION {[1..n -> ServiceIds] : n \in 0..MaxDeps}

RetryChoices == {1}

\* The status patches of UpdateTask: a status, or none (the call then
\* patches error_message only).
PatchChoices == {"none", "PENDING", "RUNNING", "CANCELLED"}

\* ListPending(limit): the PENDING rows, oldest id first, at most `limit`.
ListPending(store, limit) ==
    LET n == IF DOMAIN store = {} THEN 0
             ELSE CHOOSE m \in DOMAIN store : \A j \in DOMAIN store : j <= m
        ids == [i \in 1..n |-> i]
        pend == SelectSeq(ids, LAMBDA i : i \in DOMAIN store /\ store[i].status = "PENDING")
    IN  IF Len(pend) <= limit THEN pend ELSE SubSeq(pend, 1, limit)

\* Mutant: Submit never finds room.
SubmitRejects(q, cap, id) ==
    [ok |-> FALSE, q |-> q]

\* Mutant: Submit sends whatever the channel holds already.
SubmitUnbounded(q, cap, id) ==
    [ok |-> TRUE, q |-> Append(q, id)]

\* WorkerPool.Submit: a non-blocking send on the buffered channel.
Submit(q, cap, id) ==
    IF Len(q) < cap
    THEN [ok |-> TRUE, q |-> Append(q, id)]
    ELSE [ok |-> FALSE, q |-> q]

\* The thread after its facade call has returned.
Finish(t, ok) ==
    [IdleThread EXCEPT !.ret = [op |-> t.op, tid |-> t.tid, ok |-> ok,
                                from |-> t.from]]

\* The thread after TrySchedule has returned to its caller: the poll loop
\* goes on with the next listed id; CreateTask returns the task.
TSReturn(t) ==
    IF t.op = "poll"
    THEN IF t.list = <<>>
         THEN IdleThread
         ELSE [t EXCEPT !.pc = "ts_running", !.tid = Head(t.list),
                        !.list = Tail(t.list), !.deps = <<>>, !.di = 0]
    ELSE Finish(t, TRUE)

\* The thread after CheckDependencies has returned `out` (error, wait or
\* ready): TrySchedule goes on to its reload only when ready and without an
\* error; a direct caller of the checker gets the outcome back.
CheckerReturn(t, out) ==
    IF t.op = "CheckDependencies"
    THEN [IdleThread EXCEPT !.ret = [op |-> t.op, tid |-> t.tid,
                                     ok |-> out = "ready", from |-> out]]
    ELSE IF out = "ready" THEN [t EXCEPT !.pc = "ts_load"]
    ELSE TSReturn(t)

\* A goroutine has panicked. An unrecovered panic ends the process: no
\* goroutine takes another step.
Crashed ==
    \/ \E th \in Threads : thread[th].pc = "panic"
    \/ \E w \in Workers : worker[w].pc = "panic"

\* Scheduler.Start: idempotent; marks running and spawns the poll loop.
Start(s) ==
    /\ ~running[s]
    /\ ~Crashed
    /\ LoopCount(s) < MaxPollingLoops
    /\ running' = [running EXCEPT ![s] = TRUE]
    /\ pollingLoop' = [pollingLoop EXCEPT ![s].started = @ + 1]
    /\ UNCHANGED <<tasks, events, queue, worker, thread, handed, ran, calls,
                   repoCall, probe, closed, finished>>

(***************************************************************************)
(* TaskService.CreateTask                                                  *)
(***************************************************************************)
CreatesInFlight ==
    Cardinality({c \in Clients : thread[c].op = "CreateTask" /\ thread[c].tid = 0})

CreateTaskCall(th) ==
    /\ thread[th].op = "idle"
    /\ ~Crashed
    /\ Cardinality(DOMAIN tasks) + CreatesInFlight < MaxTasks
    /\ \E deps \in DepChoices, mr \in RetryChoices :
         thread' = [thread EXCEPT ![th] =
                      [IdleThread EXCEPT !.op = "CreateTask",
                                         !.pc = IF deps = <<>> THEN "cr_create"
                                                ELSE "cr_deps",
                                         !.snap = NewTask(deps, mr),
                                         !.di = 1]]
    /\ UNCHANGED <<tasks, events, running, queue, worker, handed, ran, calls,
                   repoCall, probe, closed, finished, pollingLoop>>

\* Mutant: the validation loop accepts a dependency id that has no row.
CreateTaskCheckDepSkips(th) ==
    /\ thread[th].pc = "cr_deps"
    /\ ~Crashed
    /\ LET t == thread[th]
       IN  thread' = [thread EXCEPT ![th] =
                        IF t.di = Len(t.snap.deps)
                        THEN [t EXCEPT !.pc = "cr_create"]
                        ELSE [t EXCEPT !.di = t.di + 1]]
    /\ UNCHANGED <<tasks, events, running, queue, worker, handed, ran, calls,
                   repoCall, probe, closed, finished, pollingLoop>>

\* The loop validating that every dependency has a row: one GetByID a step.
CreateTaskCheckDep(th) ==
    /\ thread[th].pc = "cr_deps"
    /\ ~Crashed
    /\ LET t == thread[th]
           d == t.snap.deps[t.di]
       IN  thread' = [thread EXCEPT ![th] =
                        IF GetByID(tasks, d) = NoTask THEN Finish(t, FALSE)
                        ELSE IF t.di = Len(t.snap.deps)
                             THEN [t EXCEPT !.pc = "cr_create"]
                             ELSE [t EXCEPT !.di = t.di + 1]]
    /\ UNCHANGED <<tasks, events, running, queue, worker, handed, ran, calls,
                   repoCall, probe, closed, finished, pollingLoop>>

\* task.ID = uuid.New().String(); repo.Create(task)
CreateTaskInsert(th) ==
    /\ thread[th].pc = "cr_create"
    /\ ~Crashed
    /\ LET t == thread[th]
           id == Cardinality(DOMAIN tasks) + 1
       IN  /\ tasks' = RepoCreate(tasks, id, t.snap).tasks
           /\ thread' = [thread EXCEPT ![th] = [t EXCEPT !.tid = id,
                                                         !.pc = "cr_event"]]
    /\ UNCHANGED <<events, running, queue, worker, handed, ran, calls,
                   repoCall, probe, closed, finished, pollingLoop>>

\* recordEvent(UNSPECIFIED -> PENDING), then TrySchedule when there are no
\* dependencies.
CreateTaskRecordEvent(th) ==
    /\ thread[th].pc = "cr_event"
    /\ ~Crashed
    /\ LET t == thread[th]
       IN  /\ events' = AddEvent(events, t.tid,
                                 Event("UNSPECIFIED", "PENDING", "user", "task created"))
           /\ thread' = [thread EXCEPT ![th] =
                           IF t.snap.deps = <<>>
                           THEN [t EXCEPT !.pc = "ts_running"]
                           ELSE Finish(t, TRUE)]
    /\ UNCHANGED <<tasks, running, queue, worker, handed, ran, calls,
                   repoCall, probe, closed, finished, pollingLoop>>

(***************************************************************************)
(* Scheduler.pollPendingTasks and Scheduler.TrySchedule                    *)
(***************************************************************************)
\* A tick of the poll loop: list the PENDING rows, then TrySchedule each in
\* turn. (A tick that lists nothing changes nothing.)
PollTick(s) ==
    /\ running[s]
    /\ ~Crashed
    /\ thread[0 - s].op = "idle"
    /\ LET l == ListPending(tasks, maxPending)
       IN  /\ l # <<>>
           /\ thread' = [thread EXCEPT ![0 - s] =
                           [IdleThread EXCEPT !.op = "poll", !.pc = "ts_running",
                                              !.tid = Head(l), !.list = Tail(l)]]
    /\ UNCHANGED <<tasks, events, running, queue, worker, handed, ran, calls,
                   repoCall, probe, closed, finished, pollingLoop>>

\* Mutant: TrySchedule goes on whether the scheduler is running or not.
TryScheduleCheckRunningIgnored(th) ==
    /\ thread[th].pc = "ts_running"
    /\ ~Crashed
    /\ thread' = [thread EXCEPT ![th] = [thread[th] EXCEPT !.pc = "ts_chk"]]
    /\ UNCHANGED <<tasks, events, running, queue, worker, handed, ran, calls,
                   repoCall, probe, closed, finished, pollingLoop>>

\* if !running { return nil }
TryScheduleCheckRunning(th) ==
    /\ thread[th].pc = "ts_running"
    /\ ~Crashed
    /\ LET t == thread[th]
       IN  thread' = [thread EXCEPT ![th] =
                        IF running[SchedOf(th)] THEN [t EXCEPT !.pc = "ts_chk"]
                        ELSE TSReturn(t)]
    /\ UNCHANGED <<tasks, events, running, queue, worker, handed, ran, calls,
                   repoCall, probe, closed, finished, pollingLoop>>

\* CheckDependencies: load the task; no dependencies means ready.
CheckDependenciesLoad(th) ==
    /\ thread[th].pc = "ts_chk"
    /\ ~Crashed
    /\ LET t == thread[th]
           row == GetByID(tasks, t.tid)
       IN  thread' = [thread EXCEPT ![th] =
                        IF row = NoTask THEN CheckerReturn(t, "error")
                        ELSE IF row.deps = <<>> THEN CheckerReturn(t, "ready")
                        ELSE [t EXCEPT !.pc = "ts_dep", !.deps = row.deps, !.di = 1]]
    /\ UNCHANGED <<tasks, events, running, queue, worker, handed, ran, calls,
                   repoCall, probe, closed, finished, pollingLoop>>

\* Mutant: CheckDependencies reports a task with dependencies as not ready
\* whatever the upstream's status is.
CheckDependenciesStepNeverReady(th) ==
    /\ thread[th].pc = "ts_dep"
    /\ ~Crashed
    /\ thread' = [thread EXCEPT ![th] = TSReturn(thread[th])]
    /\ UNCHANGED <<tasks, events, running, queue, worker, handed, ran, calls,
                   repoCall, probe, closed, finished, pollingLoop>>

\* Mutant: CheckDependencies goes on to the next upstream after one that
\* exists and is not SUCCEEDED, and reports the wait only at the end.
CheckDependenciesStepWalksOn(th) ==
    /\ thread[th].pc = "ts_dep"
    /\ ~Crashed
    /\ LET t == thread[th]
           up == GetByID(tasks, t.deps[t.di])
       IN  thread' = [thread EXCEPT ![th] =
                        IF up = NoTask THEN CheckerReturn(t, "error")
                        ELSE IF t.di = Len(t.deps)
                             THEN IF up.status # "SUCCEEDED" \/ t.arg = "wait"
                                  THEN CheckerReturn(t, "wait")
                                  ELSE CheckerReturn([t EXCEPT !.deps = <<>>, !.di = 0],
                                                     "ready")
                             ELSE [t EXCEPT !.di = t.di + 1,
                                            !.arg = IF up.status # "SUCCEEDED"
                                                    THEN "wait" ELSE t.arg]]
    /\ UNCHANGED <<tasks, events, running, queue, worker, handed, ran, calls,
                   repoCall, probe, closed, finished, pollingLoop>>

\* CheckDependencies: one upstream a step, in declared order; an absent
\* upstream ends the walk with an error, one that is not SUCCEEDED ends it
\* with (false, nil); after the last one the task is ready.
CheckDependenciesStep(th) ==
    /\ thread[th].pc = "ts_dep"
    /\ ~Crashed
    /\ LET t == thread[th]
           up == GetByID(tasks, t.deps[t.di])
       IN  thread' = [thread EXCEPT ![th] =
                        IF up = NoTask THEN CheckerReturn(t, "error")
                        ELSE IF up.status # "SUCCEEDED" THEN CheckerReturn(t, "wait")
                        ELSE IF t.di = Len(t.deps)
                             THEN CheckerReturn([t EXCEPT !.deps = <<>>, !.di = 0],
                                                "ready")
                             ELSE [t EXCEPT !.di = t.di + 1]]
    /\ UNCHANGED <<tasks, events, running, queue, worker, handed, ran, calls,
                   repoCall, probe, closed, finished, pollingLoop>>

\* Reload the task; go on only if it is PENDING.
TryScheduleLoad(th) ==
    /\ thread[th].pc = "ts_load"
    /\ ~Crashed
    /\ LET t == thread[th]
           row == GetByID(tasks, t.tid)
       IN  thread' = [thread EXCEPT ![th] =
                        IF row = NoTask \/ row.status # "PENDING" THEN TSReturn(t)
                        ELSE [t EXCEPT !.pc = "ts_cas"]]
    /\ UNCHANGED <<tasks, events, running, queue, worker, handed, ran, calls,
                   repoCall, probe, closed, finished, pollingLoop>>

\* UpdateStatusWithEvent(PENDING -> RUNNING): the claim.
TryScheduleClaim(th) ==
    /\ thread[th].pc = "ts_cas"
    /\ ~Crashed
    /\ LET t == thread[th]
           r == UpdateStatusWithEvent(tasks, events, t.tid, "PENDING", "RUNNING",
                                      "scheduler", "task scheduled")
       IN  /\ tasks' = r.tasks
           /\ events' = r.events
           /\ thread' = [thread EXCEPT ![th] =
                           IF r.ok THEN [t EXCEPT !.pc = "ts_submit"]
                           ELSE TSReturn(t)]
    /\ UNCHANGED <<running, queue, worker, handed, ran, calls, repoCall, probe, closed, finished, pollingLoop>>

\* workerPool.Submit(taskID); a rejected id is dropped. A send on the
\* channel after WorkerPool.Stop closed it panics, in a select too.
TryScheduleSubmit(th) ==
    /\ thread[th].pc = "ts_submit"
    /\ ~Crashed
    /\ LET t == thread[th]
           s == SchedOf(th)
           r == Submit(queue[s], QueueCap, t.tid)
       IN  IF closed[s]
           THEN /\ thread' = [thread EXCEPT ![th] = [t EXCEPT !.pc = "panic"]]
                /\ UNCHANGED <<queue, handed>>
           ELSE /\ queue' = [queue EXCEPT ![s] = r.q]
                /\ handed' = IF r.ok THEN [handed EXCEPT ![t.tid] = @ + 1]
                             ELSE handed
                /\ thread' = [thread EXCEPT ![th] = TSReturn(t)]
    /\ UNCHANGED <<tasks, events, running, worker, ran, calls, repoCall, probe,
                   closed, finished, pollingLoop>>

(***************************************************************************)
(* The pool goroutines: Scheduler.executeTask                              *)
(***************************************************************************)
\* Mutant: the goroutine reads the id at the head of the channel and leaves
\* it there.
WorkerReceiveKeepsId(w) ==
    /\ worker[w].pc = "idle"
    /\ ~Crashed
    /\ queue[w[1]] # <<>>
    /\ worker' = [worker EXCEPT ![w] = [IdleWorker EXCEPT !.pc = "ex_load",
                                                         !.tid = Head(queue[w[1]])]]
    /\ UNCHANGED <<tasks, events, running, queue, thread, handed, ran, calls,
                   repoCall, probe, closed, finished, pollingLoop>>

\* for taskID := range wp.tasks
WorkerReceive(w) ==
    /\ worker[w].pc = "idle"
    /\ ~Crashed
    /\ queue[w[1]] # <<>>
    /\ worker' = [worker EXCEPT ![w] = [IdleWorker EXCEPT !.pc = "ex_load",
                                                         !.tid = Head(queue[w[1]])]]
    /\ queue' = [queue EXCEPT ![w[1]] = Tail(@)]
    /\ UNCHANGED <<tasks, events, running, thread, handed, ran, calls,
                   repoCall, probe, closed, finished, pollingLoop>>

\* Reload the task; abandon a CANCELLED one; otherwise run the handler. The
\* built-in executeTaskHandler is a placeholder that returns a result; the
\* error branch is the one a task-type handler plugged in there takes. (A
\* nil row is dereferenced: the goroutine panics.)
WorkerExecute(w) ==
    /\ worker[w].pc = "ex_load"
    /\ ~Crashed
    /\ LET k == worker[w]
           row == GetByID(tasks, k.tid)
       IN  IF row = NoTask
           THEN /\ worker' = [worker EXCEPT ![w] = [k EXCEPT !.pc = "panic"]]
                /\ ran' = ran
           ELSE IF row.status = "CANCELLED"
           THEN /\ worker' = [worker EXCEPT ![w] = IdleWorker]
                /\ ran' = ran
           ELSE /\ \E next \in {"ok_cas", "fail_load"} :
                     worker' = [worker EXCEPT ![w] = [k EXCEPT !.pc = next]]
                /\ ran' = [ran EXCEPT ![k.tid] = @ + 1]
    /\ UNCHANGED <<tasks, events, running, queue, thread, handed, calls,
                   repoCall, probe, closed, finished, pollingLoop>>

\* Mutant: handleTaskSuccess goes on to write the result when the status
\* change was refused.
WorkerSuccessCommitIgnoresError(w) ==
    /\ worker[w].pc = "ok_cas"
    /\ ~Crashed
    /\ LET k == worker[w]
           r == UpdateStatusWithEvent(tasks, events, k.tid, "RUNNING", "SUCCEEDED",
                                      "scheduler", "task completed")
       IN  /\ tasks' = r.tasks
           /\ events' = r.events
           /\ worker' = [worker EXCEPT ![w] = [k EXCEPT !.pc = "ok_load"]]
    /\ UNCHANGED <<running, queue, thread, handed, ran, calls, repoCall, probe,
                   closed, finished, pollingLoop>>

\* handleTaskSuccess: UpdateStatusWithEvent(RUNNING -> SUCCEEDED).
WorkerSuccessCommit(w) ==
    /\ worker[w].pc = "ok_cas"
    /\ ~Crashed
    /\ LET k == worker[w]
           r == UpdateStatusWithEvent(tasks, events, k.tid, "RUNNING", "SUCCEEDED",
                                      "scheduler", "task completed")
       IN  /\ tasks' = r.tasks
           /\ events' = r.events
           /\ worker' = [worker EXCEPT ![w] =
                           IF r.ok THEN [k EXCEPT !.pc = "ok_load"] ELSE IdleWorker]
    /\ UNCHANGED <<running, queue, thread, handed, ran, calls, repoCall, probe, closed, finished, pollingLoop>>

\* handleTaskSuccess: task, err := GetByID(taskID); with no row the write
\* of the result is skipped and finishedCnt is incremented all the same.
WorkerSuccessLoad(w) ==
    /\ worker[w].pc = "ok_load"
    /\ ~Crashed
    /\ LET k == worker[w]
           row == GetByID(tasks, k.tid)
       IN  /\ worker' = [worker EXCEPT ![w] =
                           IF row = NoTask THEN IdleWorker
                           ELSE [k EXCEPT !.pc = "ok_update", !.snap = row]]
           /\ finished' = IF row = NoTask
                          THEN [finished EXCEPT ![w[1]] = @ + 1]
                          ELSE finished
    /\ UNCHANGED <<tasks, events, running, queue, thread, handed, ran, calls,
                   repoCall, probe, closed, pollingLoop>>

\* handleTaskSuccess: task.OutputResult = result; repo.Update(task);
\* finishedCnt++
WorkerSuccessUpdate(w) ==
    /\ worker[w].pc = "ok_update"
    /\ ~Crashed
    /\ LET k == worker[w]
       IN  tasks' = RepoUpdate(tasks, k.tid,
                               [k.snap EXCEPT !.outputResult = "completed"]).tasks
    /\ worker' = [worker EXCEPT ![w] = IdleWorker]
    /\ finished' = [finished EXCEPT ![w[1]] = @ + 1]
    /\ UNCHANGED <<events, running, queue, thread, handed, ran, calls,
                   repoCall, probe, closed, pollingLoop>>

\* handleTaskFailure: load the task and ask it CanRetry.
WorkerFailureLoad(w) ==
    /\ worker[w].pc = "fail_load"
    /\ ~Crashed
    /\ LET k == worker[w]
           row == GetByID(tasks, k.tid)
       IN  worker' = [worker EXCEPT ![w] =
                        IF row = NoTask THEN IdleWorker
                        ELSE [k EXCEPT !.pc = "fail_cas", !.retry = TaskCanRetry(row)]]
    /\ UNCHANGED <<tasks, events, running, queue, thread, handed, ran, calls,
                   repoCall, probe, closed, finished, pollingLoop>>

\* handleTaskFailure: RUNNING -> PENDING ("retry: ...") when CanRetry said
\* yes, RUNNING -> FAILED otherwise.
WorkerFailureCommit(w) ==
    /\ worker[w].pc = "fail_cas"
    /\ ~Crashed
    /\ LET k == worker[w]
           r == IF k.retry
                THEN UpdateStatusWithEvent(tasks, events, k.tid, "RUNNING", "PENDING",
                                           "scheduler", "retry: handler error")
                ELSE UpdateStatusWithEvent(tasks, events, k.tid, "RUNNING", "FAILED",
                                           "scheduler", "handler error")
       IN  /\ tasks' = r.tasks
           /\ events' = r.events
    /\ worker' = [worker EXCEPT ![w] = IdleWorker]
    /\ UNCHANGED <<running, queue, thread, handed, ran, calls, repoCall, probe, closed, finished, pollingLoop>>

(***************************************************************************)
(* TaskService.UpdateTask, CancelTask, RetryTask                           *)
(***************************************************************************)
UpdateTaskCall(th) ==
    /\ thread[th].op = "idle"
    /\ ~Crashed
    /\ calls < MaxCalls
    /\ calls' = calls + 1
    /\ \E id \in ServiceIds, patch \in PatchChoices :
         thread' = [thread EXCEPT ![th] =
                      [IdleThread EXCEPT !.op = "UpdateTask", !.pc = "up_load",
                                         !.tid = id, !.arg = patch]]
    /\ UNCHANGED <<tasks, events, running, queue, worker, handed, ran,
                   repoCall, probe, closed, finished, pollingLoop>>

\* Mutant: the status patch is applied without asking the StateMachine.
UpdateTaskLoadUnvalidated(th) ==
    /\ thread[th].pc = "up_load"
    /\ ~Crashed
    /\ LET t == thread[th]
           row == GetByID(tasks, t.tid)
       IN  thread' = [thread EXCEPT ![th] =
                        IF row = NoTask THEN Finish(t, FALSE)
                        ELSE [t EXCEPT !.pc = "up_write",
                                       !.snap = [row EXCEPT
                                                   !.status = IF t.arg = "none" THEN @
                                                              ELSE t.arg,
                                                   !.errorMessage = "patched",
                                                   !.updatedAt = NowTime]]]
    /\ UNCHANGED <<tasks, events, running, queue, worker, handed, ran, calls,
                   repoCall, probe, closed, finished, pollingLoop>>

\* Load the task and apply the patch to the loaded copy: a status patch goes
\* through StateMachine.Transition, whose error ends the call before any
\* other field of the patch is looked at; error_message is patched when the
\* patch has no status, or carries a message beside it (msg).
UpdateTaskLoad(th) ==
    /\ thread[th].pc = "up_load"
    /\ ~Crashed
    /\ LET t == thread[th]
           row == GetByID(tasks, t.tid)
           r == Transition(row, t.arg, NowTime)
       IN  thread' = [thread EXCEPT ![th] =
                        IF row = NoTask THEN Finish(t, FALSE)
                        ELSE IF t.arg = "none"
                        THEN [t EXCEPT !.pc = "up_write",
                                       !.snap = [row EXCEPT !.errorMessage = "patched",
                                                            !.updatedAt = NowTime]]
                        ELSE IF r.err THEN Finish(t, FALSE)
                        ELSE [t EXCEPT !.pc = "up_write",
                                       !.snap = [r.task EXCEPT
                                                   !.status = t.arg,
                                                   !.errorMessage = IF t.msg THEN "patched"
                                                                    ELSE @,
                                                   !.updatedAt = NowTime]]]
    /\ UNCHANGED <<tasks, events, running, queue, worker, handed, ran, calls,
                   repoCall, probe, closed, finished, pollingLoop>>

\* repo.Update(task): the loaded copy overwrites the row.
UpdateTaskWrite(th) ==
    /\ thread[th].pc = "up_write"
    /\ ~Crashed
    /\ LET t == thread[th]
           r == RepoUpdate(tasks, t.tid, t.snap)
       IN  /\ tasks' = r.tasks
           /\ thread' = [thread EXCEPT ![th] = Finish(t, r.ok)]
    /\ UNCHANGED <<events, running, queue, worker, handed, ran, calls,
                   repoCall, probe, closed, finished, pollingLoop>>

CancelTaskCall(th) ==
    /\ thread[th].op = "idle"
    /\ ~Crashed
    /\ calls < MaxCalls
    /\ calls' = calls + 1
    /\ \E id \in ServiceIds :
         thread' = [thread EXCEPT ![th] =
                      [IdleThread EXCEPT !.op = "CancelTask", !.pc = "ca_load",
                                         !.tid = id]]
    /\ UNCHANGED <<tasks, events, running, queue, worker, handed, ran,
                   repoCall, probe, closed, finished, pollingLoop>>

\* Mutant: CancelTask neither rejects a terminal task nor validates the
\* transition before it writes.
CancelTaskLoadUnchecked(th) ==
    /\ thread[th].pc = "ca_load"
    /\ ~Crashed
    /\ LET t == thread[th]
           row == GetByID(tasks, t.tid)
       IN  thread' = [thread EXCEPT ![th] =
                        IF row = NoTask THEN Finish(t, FALSE)
                        ELSE [t EXCEPT !.pc = "ca_cas", !.from = row.status]]
    /\ UNCHANGED <<tasks, events, running, queue, worker, handed, ran, calls,
                   repoCall, probe, closed, finished, pollingLoop>>

\* Load the task; reject a terminal one; Transition the loaded copy.
CancelTaskLoad(th) ==
    /\ thread[th].pc = "ca_load"
    /\ ~Crashed
    /\ LET t == thread[th]
           row == GetByID(tasks, t.tid)
       IN  thread' = [thread EXCEPT ![th] =
                        IF row = NoTask THEN Finish(t, FALSE)
                        ELSE IF TaskIsTerminal(row) THEN Finish([t EXCEPT !.from = row.status], FALSE)
                        ELSE IF Transition(row, "CANCELLED", NowTime).err
                        THEN Finish([t EXCEPT !.from = row.status], FALSE)
                        ELSE [t EXCEPT !.pc = "ca_cas", !.from = row.status]]
    /\ UNCHANGED <<tasks, events, running, queue, worker, handed, ran, calls,
                   repoCall, probe, closed, finished, pollingLoop>>

\* UpdateStatusWithEvent(fromStatus -> CANCELLED)
CancelTaskCommit(th) ==
    /\ thread[th].pc = "ca_cas"
    /\ ~Crashed
    /\ LET t == thread[th]
           r == UpdateStatusWithEvent(tasks, events, t.tid, t.from, "CANCELLED",
                                      "user", "task cancelled")
       IN  /\ tasks' = r.tasks
           /\ events' = r.events
           /\ thread' = [thread EXCEPT ![th] = Finish(t, r.ok)]
    /\ UNCHANGED <<running, queue, worker, handed, ran, calls, repoCall, probe, closed, finished, pollingLoop>>

RetryTaskCall(th) ==
    /\ thread[th].op = "idle"
    /\ ~Crashed
    /\ calls < MaxCalls
    /\ calls' = calls + 1
    /\ \E id \in ServiceIds :
         thread' = [thread EXCEPT ![th] =
                      [IdleThread EXCEPT !.op = "RetryTask", !.pc = "re_load",
                                         !.tid = id]]
    /\ UNCHANGED <<tasks, events, running, queue, worker, handed, ran,
                   repoCall, probe, closed, finished, pollingLoop>>

\* Mutant: RetryTask does not ask CanRetry; the StateMachine alone decides.
RetryTaskLoadUnchecked(th) ==
    /\ thread[th].pc = "re_load"
    /\ ~Crashed
    /\ LET t == thread[th]
           row == GetByID(tasks, t.tid)
       IN  thread' = [thread EXCEPT ![th] =
                        IF row = NoTask THEN Finish(t, FALSE)
                        ELSE IF Transition(row, "PENDING", NowTime).err
                        THEN Finish([t EXCEPT !.from = row.status], FALSE)
                        ELSE [t EXCEPT !.pc = "re_cas", !.from = row.status]]
    /\ UNCHANGED <<tasks, events, running, queue, worker, handed, ran, calls,
                   repoCall, probe, closed, finished, pollingLoop>>

\* Load the task; reject unless CanRetry; Transition the loaded copy.
RetryTaskLoad(th) ==
    /\ thread[th].pc = "re_load"
    /\ ~Crashed
    /\ LET t == thread[th]
           row == GetByID(tasks, t.tid)
       IN  thread' = [thread EXCEPT ![th] =
                        IF row = NoTask THEN Finish(t, FALSE)
                        ELSE IF ~TaskCanRetry(row) THEN Finish([t EXCEPT !.from = row.status], FALSE)
                        ELSE IF Transition(row, "PENDING", NowTime).err
                        THEN Finish([t EXCEPT !.from = row.status], FALSE)
                        ELSE [t EXCEPT !.pc = "re_cas", !.from = row.status]]
    /\ UNCHANGED <<tasks, events, running, queue, worker, handed, ran, calls,
                   repoCall, probe, closed, finished, pollingLoop>>

\* UpdateStatusWithEvent(fromStatus -> PENDING)
RetryTaskCommit(th) ==
    /\ thread[th].pc = "re_cas"
    /\ ~Crashed
    /\ LET t == thread[th]
           r == UpdateStatusWithEvent(tasks, events, t.tid, t.from, "PENDING",
                                      "user", "retry attempt")
       IN  /\ tasks' = r.tasks
           /\ events' = r.events
           /\ thread' = [thread EXCEPT ![th] = Finish(t, r.ok)]
    /\ UNCHANGED <<running, queue, worker, handed, ran, calls, repoCall, probe, closed, finished, pollingLoop>>

(***************************************************************************)
(* Spec: one TaskService from its construction on: StartScheduler, the     *)
(* facade calls, the poll loop and the pool goroutines.                    *)
(***************************************************************************)
Init ==
    /\ tasks = <<>>
    /\ events = NoEvents
    /\ SysIdle
    /\ repoCall = NoCall
    /\ probe = IdleProbe

ThreadStep(th) ==
    \/ TryScheduleCheckRunning(th)
    \/ CheckDependenciesLoad(th)
    \/ CheckDependenciesStep(th)
    \/ TryScheduleLoad(th)
    \/ TryScheduleClaim(th)
    \/ TryScheduleSubmit(th)

WorkerStep(w) ==
    \/ WorkerReceive(w)
    \/ WorkerExecute(w)
    \/ WorkerSuccessCommit(w)
    \/ WorkerSuccessLoad(w)
    \/ WorkerSuccessUpdate(w)
    \/ WorkerFailureLoad(w)
    \/ WorkerFailureCommit(w)

ClientStep(th) ==
    \/ CreateTaskCall(th)
    \/ CreateTaskCheckDep(th)
    \/ CreateTaskInsert(th)
    \/ CreateTaskRecordEvent(th)
    \/ UpdateTaskCall(th)
    \/ UpdateTaskLoad(th)
    \/ UpdateTaskWrite(th)
    \/ CancelTaskCall(th)
    \/ CancelTaskLoad(th)
    \/ CancelTaskCommit(th)
    \/ RetryTaskCall(th)
    \/ RetryTaskLoad(th)
    \/ RetryTaskCommit(th)

Next ==
    \/ Start(1)
    \/ PollTick(1)
    \/ \E th \in Clients : ClientStep(th)
    \/ \E th \in Threads : ThreadStep(th)
    \/ \E w \in Workers : WorkerStep(w)

Spec == Init /\ [][Next]_vars

(***************************************************************************)
(* SpecBacklog: two TaskService instances on one store, both schedulers    *)
(* started, and a backlog of PENDING tasks created while they were stopped *)
(* (the last one depends on the first). Only the poll loops and the pool   *)
(* goroutines act.                                                         *)
(***************************************************************************)
BacklogInit ==
    /\ tasks = [i \in BacklogIds |->
                   IF i = Cardinality(BacklogIds) THEN NewTask(<<1>>, 1)
                   ELSE NewTask(<<>>, 1)]
    /\ events = [t \in TaskIds |->
                    IF t \in BacklogIds
                    THEN <<Event("UNSPECIFIED", "PENDING", "user", "task created")>>
                    ELSE <<>>]
    /\ running = [s \in Schedulers |-> TRUE]
    /\ queue = [s \in Schedulers |-> <<>>]
    /\ worker = [w \in Workers |-> IdleWorker]
    /\ thread = [th \in Threads |-> IdleThread]
    /\ handed = [t \in TaskIds |-> 0]
    /\ ran = [t \in TaskIds |-> 0]
    /\ calls = 0
    /\ closed = [s \in Schedulers |-> FALSE]
    /\ finished = [s \in Schedulers |-> 0]
    /\ pollingLoop = LoopsAfterStart(running)
    /\ repoCall = NoCall
    /\ probe = IdleProbe

BacklogNext ==
    \/ \E s \in Schedulers : PollTick(s)
    \/ \E th \in Pollers : ThreadStep(th)
    \/ \E w \in Workers : WorkerStep(w)

SpecBacklog == BacklogInit /\ [][BacklogNext]_vars

\* The same system with its scheduling: the ticker keeps firing, and every
\* goroutine that can take a step eventually takes one.
BacklogFairness ==
    /\ \A s \in Schedulers : WF_vars(PollTick(s))
    /\ \A th \in Pollers : WF_vars(ThreadStep(th))
    /\ \A w \in Workers : WF_vars(WorkerStep(w))

SpecBacklogFair == BacklogInit /\ [][BacklogNext]_vars /\ BacklogFairness

(***************************************************************************)
(* Scheduler.Stop and a restart. SpecRestart: one TaskService whose store  *)
(* holds PENDING tasks (the last one depends on the first); its owner      *)
(* starts and stops the scheduler while the poll loop and the pool         *)
(* goroutines run.                                                         *)
(***************************************************************************)
\* Scheduler.Stop up to wg.Wait(): cancel the context, running = false,
\* close(wp.tasks). Closing the channel a second time panics. (Stop on a
\* stopped scheduler returns at once and changes nothing.)
StopCall(th) ==
    /\ thread[th].op = "idle"
    /\ ~Crashed
    /\ running[SchedOf(th)]
    /\ running' = [running EXCEPT ![SchedOf(th)] = FALSE]
    /\ closed' = [closed EXCEPT ![SchedOf(th)] = TRUE]
    /\ pollingLoop' = [pollingLoop EXCEPT ![SchedOf(th)] =
                         [@ EXCEPT !.waiting = 0, !.cancelled = @ + pollingLoop[SchedOf(th)].waiting]]
    /\ thread' = [thread EXCEPT ![th] =
                    [IdleThread EXCEPT !.op = "Stop",
                                       !.pc = IF closed[SchedOf(th)] THEN "panic"
                                              ELSE "st_wait"]]
    /\ UNCHANGED <<tasks, events, queue, worker, handed, ran, calls, repoCall,
                   probe, finished>>

\* wg.Wait() returns once every pool goroutine has left its loop.
StopReturn(th) ==
    /\ thread[th].pc = "st_wait"
    /\ ~Crashed
    /\ \A w \in Workers : w[1] = SchedOf(th) => worker[w].pc = "exited"
    /\ thread' = [thread EXCEPT ![th] = Finish(thread[th], TRUE)]
    /\ UNCHANGED <<tasks, events, running, queue, worker, handed, ran, calls,
                   repoCall, probe, closed, finished, pollingLoop>>

\* for taskID := range wp.tasks ends when the channel is closed and drained.
WorkerExit(w) ==
    /\ worker[w].pc = "idle"
    /\ ~Crashed
    /\ closed[w[1]]
    /\ queue[w[1]] = <<>>
    /\ worker' = [worker EXCEPT ![w] = [IdleWorker EXCEPT !.pc = "exited"]]
    /\ UNCHANGED <<tasks, events, running, queue, thread, handed, ran, calls,
                   repoCall, probe, closed, finished, pollingLoop>>

\* Scheduler.Start by the owner: it takes s.mu, which a Stop in wg.Wait()
\* still holds.
StartCall(th) ==
    /\ thread[th].op = "idle"
    /\ Start(SchedOf(th))

\* Stop on a scheduler that is not running: if !s.running { return }.
StopNotRunning(th) ==
    /\ thread[th].op = "idle"
    /\ ~Crashed
    /\ ~running[SchedOf(th)]
    /\ thread' = [thread EXCEPT ![th] =
                    Finish([IdleThread EXCEPT !.op = "Stop"], TRUE)]
    /\ UNCHANGED <<tasks, events, running, queue, worker, handed, ran, calls,
                   repoCall, probe, closed, finished, pollingLoop>>

\* pollingLoop enters its select: the channel of s.ctx.Done() is read from
\* the field at that moment, so a goroutine that was not at its select when
\* Stop cancelled the context waits on whatever context s.ctx holds now.
LoopSelect(s) ==
    /\ pollingLoop[s].started > 0
    /\ ~Crashed
    /\ pollingLoop' = [pollingLoop EXCEPT ![s] =
                         IF running[s]
                         THEN [@ EXCEPT !.started = @ - 1, !.waiting = @ + 1]
                         ELSE [@ EXCEPT !.started = @ - 1, !.cancelled = @ + 1]]
    /\ UNCHANGED <<tasks, events, running, queue, worker, thread, handed, ran,
                   calls, repoCall, probe, closed, finished>>

\* case <-ticker.C: the goroutine leaves its select for pollPendingTasks
\* (whose store accesses are PollTick and the TrySchedule steps).
LoopTick(s) ==
    /\ pollingLoop[s].waiting > 0
    /\ ~Crashed
    /\ pollingLoop' = [pollingLoop EXCEPT ![s] =
                         [@ EXCEPT !.waiting = @ - 1, !.started = @ + 1]]
    /\ UNCHANGED <<tasks, events, running, queue, worker, thread, handed, ran,
                   calls, repoCall, probe, closed, finished>>

\* case <-s.ctx.Done(): return.
LoopExit(s) ==
    /\ pollingLoop[s].cancelled > 0
    /\ ~Crashed
    /\ pollingLoop' = [pollingLoop EXCEPT ![s].cancelled = @ - 1]
    /\ UNCHANGED <<tasks, events, running, queue, worker, thread, handed, ran,
                   calls, repoCall, probe, closed, finished>>

LoopStep(s) ==
    \/ LoopSelect(s)
    \/ LoopTick(s)
    \/ LoopExit(s)

RestartInit ==
    /\ tasks = [i \in ServiceIds |->
                   IF i = MaxTasks THEN NewTask(<<1>>, 1) ELSE NewTask(<<>>, 1)]
    /\ events = [t \in TaskIds |->
                    IF t \in ServiceIds
                    THEN <<Event("UNSPECIFIED", "PENDING", "user", "task created")>>
                    ELSE <<>>]
    /\ SysIdle
    /\ repoCall = NoCall
    /\ probe = IdleProbe

RestartNext ==
    \/ \E th \in Clients : StartCall(th)
    \/ \E th \in Clients : StopCall(th)
    \/ \E th \in Clients : StopReturn(th)
    \/ PollTick(1)
    \/ ThreadStep(0 - 1)
    \/ \E w \in Workers : WorkerStep(w)
    \/ \E w \in Workers : WorkerExit(w)
    \/ LoopStep(1)

SpecRestart == RestartInit /\ [][RestartNext]_vars

(***************************************************************************)
(* SpecLive: a started scheduler on an empty store; callers create tasks   *)
(* (with or without dependencies) and nothing else; the poll loop and the  *)
(* pool goroutines run, fairly scheduled.                                  *)
(***************************************************************************)
LiveInit ==
    /\ tasks = <<>>
    /\ events = NoEvents
    /\ running = [s \in Schedulers |-> s = 1]
    /\ queue = [s \in Schedulers |-> <<>>]
    /\ worker = [w \in Workers |-> IdleWorker]
    /\ thread = [th \in Threads |-> IdleThread]
    /\ handed = [t \in TaskIds |-> 0]
    /\ ran = [t \in TaskIds |-> 0]
    /\ calls = 0
    /\ closed = [s \in Schedulers |-> FALSE]
    /\ finished = [s \in Schedulers |-> 0]
    /\ pollingLoop = LoopsAfterStart(running)
    /\ repoCall = NoCall
    /\ probe = IdleProbe

\* A CreateTask call that has been made runs to its end.
CreateTaskStep(th) ==
    \/ CreateTaskCheckDep(th)
    \/ CreateTaskInsert(th)
    \/ CreateTaskRecordEvent(th)

LiveNext ==
    \/ \E th \in Clients : CreateTaskCall(th)
    \/ \E th \in Clients : CreateTaskStep(th)
    \/ PollTick(1)
    \/ \E th \in Threads : ThreadStep(th)
    \/ \E w \in Workers : WorkerStep(w)

\* The ticker keeps firing and every goroutine that can take a step
\* eventually takes one; callers are free to make no further call.
LiveFairness ==
    /\ WF_vars(PollTick(1))
    /\ \A th \in Clients : WF_vars(CreateTaskStep(th))
    /\ \A th \in Threads : WF_vars(ThreadStep(th))
    /\ \A w \in Workers : WF_vars(WorkerStep(w))

SpecLive == LiveInit /\ [][LiveNext]_vars /\ LiveFairness

(***************************************************************************)
(* StartedInit: a started scheduler on a store holding PENDING tasks (the  *)
(* last one depends on the first). SpecDelete: an administrator deletes    *)
(* rows with the repository's Delete while the scheduler runs.             *)
(***************************************************************************)
StartedInit ==
    /\ tasks = [i \in ServiceIds |->
                   IF i = MaxTasks THEN NewTask(<<1>>, 1) ELSE NewTask(<<>>, 1)]
    /\ events = [t \in TaskIds |->
                    IF t \in ServiceIds
                    THEN <<Event("UNSPECIFIED", "PENDING", "user", "task created")>>
                    ELSE <<>>]
    /\ running = [s \in Schedulers |-> s = 1]
    /\ queue = [s \in Schedulers |-> <<>>]
    /\ worker = [w \in Workers |-> IdleWorker]
    /\ thread = [th \in Threads |-> IdleThread]
    /\ handed = [t \in TaskIds |-> 0]
    /\ ran = [t \in TaskIds |-> 0]
    /\ calls = 0
    /\ closed = [s \in Schedulers |-> FALSE]
    /\ finished = [s \in Schedulers |-> 0]
    /\ pollingLoop = LoopsAfterStart(running)
    /\ repoCall = NoCall
    /\ probe = IdleProbe

\* repo.Delete(id) by an administrator, outside the TaskService.
AdminDelete(id) ==
    /\ id \in DOMAIN tasks
    /\ ~Crashed
    /\ tasks' = RepoDelete(tasks, id)
    /\ UNCHANGED <<events, running, queue, worker, thread, handed, ran, calls,
                   repoCall, probe, closed, finished, pollingLoop>>

DeleteNext ==
    \/ \E id \in ServiceIds : AdminDelete(id)
    \/ PollTick(1)
    \/ ThreadStep(0 - 1)
    \/ \E w \in Workers : WorkerStep(w)

SpecDelete == StartedInit /\ [][DeleteNext]_vars

(***************************************************************************)
(* SpecRetry: a started scheduler on a store holding PENDING tasks while   *)
(* a caller makes RetryTask calls; the handler may fail on any run.        *)
(***************************************************************************)
RetryNext ==
    \/ \E th \in Clients : RetryTaskCall(th)
    \/ \E th \in Clients : RetryTaskLoad(th)
    \/ \E th \in Clients : RetryTaskCommit(th)
    \/ PollTick(1)
    \/ ThreadStep(0 - 1)
    \/ \E w \in Workers : WorkerStep(w)

SpecRetry == StartedInit /\ [][RetryNext]_vars

(***************************************************************************)
(* SpecWindow: a started scheduler on a store with more PENDING rows than  *)
(* one listing returns. The oldest task is CANCELLED; the next one is      *)
(* ready; maxPending tasks that depend on the cancelled one follow; the    *)
(* newest task has no dependencies and was created while the scheduler was *)
(* stopped. The poll loop and the pool goroutines run, fairly scheduled.   *)
(***************************************************************************)
WindowIds == 1..(maxPending + 3)

\* The tasks that depend on the cancelled one, and the others.
BlockedIds == 3..(maxPending + 2)

UnblockedIds == WindowIds \ BlockedIds

WindowInit ==
    /\ tasks = [i \in WindowIds |->
                   IF i = 1 THEN [NewTask(<<>>, 1) EXCEPT !.status = "CANCELLED"]
                   ELSE IF i \in BlockedIds THEN NewTask(<<1>>, 1)
                   ELSE NewTask(<<>>, 1)]
    /\ events = [t \in WindowIds |->
                    IF t = 1
                    THEN <<Event("UNSPECIFIED", "PENDING", "user", "task created"),
                           Event("PENDING", "CANCELLED", "user", "cancelled")>>
                    ELSE <<Event("UNSPECIFIED", "PENDING", "user", "task created")>>]
    /\ running = [s \in Schedulers |-> s = 1]
    /\ queue = [s \in Schedulers |-> <<>>]
    /\ worker = [w \in Workers |-> IdleWorker]
    /\ thread = [th \in Threads |-> IdleThread]
    /\ handed = [t \in WindowIds |-> 0]
    /\ ran = [t \in WindowIds |-> 0]
    /\ calls = 0
    /\ closed = [s \in Schedulers |-> FALSE]
    /\ finished = [s \in Schedulers |-> 0]
    /\ pollingLoop = LoopsAfterStart(running)
    /\ repoCall = NoCall
    /\ probe = IdleProbe

WindowNext ==
    \/ PollTick(1)
    \/ ThreadStep(0 - 1)
    \/ \E w \in Workers : WorkerStep(w)

\* The ticker keeps firing, and every goroutine that can take a step
\* eventually takes one.
WindowFairness ==
    /\ WF_vars(PollTick(1))
    /\ WF_vars(ThreadStep(0 - 1))
    /\ \A w \in Workers : WF_vars(WorkerStep(w))

SpecWindow == WindowInit /\ [][WindowNext]_vars /\ WindowFairness

(***************************************************************************)
(* SpecLifecycle: one TaskService on an empty store whose owner starts and *)
(* stops the scheduler and creates tasks, in any order, while the poll     *)
(* loops and the pool goroutines run.                                      *)
(***************************************************************************)
LifecycleInit ==
    /\ tasks = <<>>
    /\ events = NoEvents
    /\ SysIdle
    /\ repoCall = NoCall
    /\ probe = IdleProbe

LifecycleNext ==
    \/ \E th \in Clients : StartCall(th)
    \/ \E th \in Clients : StopCall(th)
    \/ \E th \in Clients : StopReturn(th)
    \/ \E th \in Clients : StopNotRunning(th)
    \/ \E th \in Clients : CreateTaskCall(th)
    \/ \E th \in Clients : CreateTaskStep(th)
    \/ PollTick(1)
    \/ \E th \in Threads : ThreadStep(th)
    \/ \E w \in Workers : WorkerStep(w)
    \/ \E w \in Workers : WorkerExit(w)
    \/ LoopStep(1)

SpecLifecycle == LifecycleInit /\ [][LifecycleNext]_vars

(***************************************************************************)
(* SpecPatch: one caller patching the status of one stored task with       *)
(* UpdateTask, call after call; the scheduler is not started.              *)
(***************************************************************************)
MaxPatchCalls == 5

PatchInit ==
    /\ \E mr \in 0..1 : tasks = [i \in {1} |-> NewTask(<<>>, mr)]
    /\ events = [t \in TaskIds |->
                    IF t = 1
                    THEN <<Event("UNSPECIFIED", "PENDING", "user", "task created")>>
                    ELSE <<>>]
    /\ SysIdle
    /\ repoCall = NoCall
    /\ probe = IdleProbe

\* UpdateTask(id, {status: patch}) with any status as the patch.
UpdateTaskStatusCall(th) ==
    /\ thread[th].op = "idle"
    /\ ~Crashed
    /\ calls < MaxPatchCalls
    /\ calls' = calls + 1
    /\ \E patch \in Statuses :
         thread' = [thread EXCEPT ![th] =
                      [IdleThread EXCEPT !.op = "UpdateTask", !.pc = "up_load",
                                         !.tid = 1, !.arg = patch]]
    /\ UNCHANGED <<tasks, events, running, queue, worker, handed, ran,
                   repoCall, probe, closed, finished, pollingLoop>>

PatchNext ==
    \/ \E th \in Clients : UpdateTaskStatusCall(th)
    \/ \E th \in Clients : UpdateTaskLoad(th)
    \/ \E th \in Clients : UpdateTaskWrite(th)

SpecPatch == PatchInit /\ [][PatchNext]_vars

(***************************************************************************)
(* SpecPool: a WorkerPool on its own, as TestWorkerPool drives it: Run     *)
(* with a handler that only records the id, and a caller offering ids with *)
(* Submit, more of them than the pool and its channel hold.                *)
(***************************************************************************)
\* Submit calls the caller makes in a run.
MaxPoolOffers == 8

PoolInit ==
    /\ tasks = <<>>
    /\ events = NoEvents
    /\ SysIdle
    /\ repoCall = NoCall
    /\ probe = IdleProbe

\* pool.Submit(id) by the caller, for the first id (task-1, task-2, ...)
\* that the pool has not accepted yet.
PoolSubmit(th) ==
    /\ thread[th].op = "idle"
    /\ ~Crashed
    /\ calls < MaxPoolOffers
    /\ calls' = calls + 1
    /\ \E id \in BacklogIds :
         LET s == SchedOf(th)
             r == Submit(queue[s], QueueCap, id)
         IN  /\ handed[id] = 0
             /\ \A j \in BacklogIds : j < id => handed[j] = 1
             /\ queue' = [queue EXCEPT ![s] = r.q]
             /\ handed' = IF r.ok THEN [handed EXCEPT ![id] = @ + 1] ELSE handed
             /\ thread' = [thread EXCEPT ![th] =
                             Finish([IdleThread EXCEPT !.op = "Submit", !.tid = id],
                                    r.ok)]
    /\ UNCHANGED <<tasks, events, running, worker, ran, repoCall, probe, closed,
                   finished, pollingLoop>>

\* handler(taskID) with the recording handler: it notes the id and returns.
PoolHandler(w) ==
    /\ worker[w].pc = "ex_load"
    /\ ~Crashed
    /\ ran' = [ran EXCEPT ![worker[w].tid] = @ + 1]
    /\ worker' = [worker EXCEPT ![w] = IdleWorker]
    /\ UNCHANGED <<tasks, events, running, queue, thread, handed, calls,
                   repoCall, probe, closed, finished, pollingLoop>>

PoolWorkerStep(w) ==
    \/ WorkerReceive(w)
    \/ PoolHandler(w)

PoolNext ==
    \/ \E th \in Clients : PoolSubmit(th)
    \/ \E w \in Workers : PoolWorkerStep(w)

\* Every pool goroutine that can take a step eventually takes one.
PoolFairness ==
    \A w \in Workers : WF_vars(PoolWorkerStep(w))

SpecPool == PoolInit /\ [][PoolNext]_vars /\ PoolFairness

(***************************************************************************)
(* SpecFacade: one caller making UpdateTask, CancelTask and RetryTask      *)
(* calls, one after the other, on a stored task and on an id with no row;  *)
(* the scheduler is not started.                                           *)
(***************************************************************************)
\* Facade calls one caller makes in a run.
MaxFacadeCalls == 6

\* The patches of UpdateTask: no status or any status, with or without an
\* error_message beside it.
FacadePatches == (Statuses \cup {"none"}) \X BOOLEAN

FacadeInit ==
    /\ \E mr \in 0..MaxRetryCount : tasks = [i \in {1} |-> NewTask(<<>>, mr)]
    /\ events = [t \in TaskIds |->
                    IF t = 1
                    THEN <<Event("UNSPECIFIED", "PENDING", "user", "task created")>>
                    ELSE <<>>]
    /\ SysIdle
    /\ repoCall = NoCall
    /\ probe = IdleProbe

\* UpdateTask(id, patch), CancelTask(id) or RetryTask(id) is called.
FacadeCall(th) ==
    /\ thread[th].op = "idle"
    /\ ~Crashed
    /\ calls < MaxFacadeCalls
    /\ calls' = calls + 1
    /\ \E id \in ServiceIds :
         \/ \E patch \in FacadePatches :
              thread' = [thread EXCEPT ![th] =
                           [IdleThread EXCEPT !.op = "UpdateTask", !.pc = "up_load",
                                              !.tid = id, !.arg = patch[1],
                                              !.msg = patch[2]]]
         \/ thread' = [thread EXCEPT ![th] =
                         [IdleThread EXCEPT !.op = "CancelTask", !.pc = "ca_load",
                                            !.tid = id]]
         \/ thread' = [thread EXCEPT ![th] =
                         [IdleThread EXCEPT !.op = "RetryTask", !.pc = "re_load",
                                            !.tid = id]]
    /\ UNCHANGED <<tasks, events, running, queue, worker, handed, ran,
                   repoCall, probe, closed, finished, pollingLoop>>

\* The calls are made by one caller (thread 1), each after the previous one
\* has returned.
FacadeNext ==
    \/ FacadeCall(1)
    \/ UpdateTaskLoad(1)
    \/ UpdateTaskWrite(1)
    \/ CancelTaskLoad(1)
    \/ CancelTaskCommit(1)
    \/ RetryTaskLoad(1)
    \/ RetryTaskCommit(1)

SpecFacade == FacadeInit /\ [][FacadeNext]_vars

(***************************************************************************)
(* SpecChecker: the dependency checker called directly, as its test does,  *)
(* on a store whose rows were made with repo.Create: a task with a list of *)
(* dependencies over ids that have a row in any status or no row, and an   *)
(* id with no row.                                                         *)
(***************************************************************************)
\* Length of the longest dependency list given to the checker.
MaxCheckedDeps == 2

\* The id of the task whose dependencies are checked, and an id without a
\* row; the upstream ids are the ids below them.
CheckedId == MaxTasks + 1

AbsentId == MaxTasks + 2

CheckedDepLists == UNION {[1..n -> ServiceIds] : n \in 0..MaxCheckedDeps}

\* The stores: each upstream id has a row in some status or none.
CheckerStores ==
    {[i \in {j \in ServiceIds : u[j] # "absent"} \cup {CheckedId} |->
        IF i = CheckedId THEN NewTask(d, 1)
        ELSE [NewTask(<<>>, 1) EXCEPT !.status = u[i]]] :
     u \in [ServiceIds -> (Statuses \ {"UNSPECIFIED"}) \cup {"absent"}],
     d \in CheckedDepLists}

CheckerInit ==
    /\ tasks \in CheckerStores
    /\ events = NoEvents
    /\ SysIdle
    /\ repoCall = NoCall
    /\ probe = IdleProbe

\* checker.CheckDependencies(id) is called.
CheckDependenciesCall(th) ==
    /\ thread[th].op = "idle"
    /\ thread[th].ret.op = "none"
    /\ \E id \in {CheckedId, AbsentId} :
         thread' = [thread EXCEPT ![th] =
                      [IdleThread EXCEPT !.op = "CheckDependencies",
                                         !.pc = "ts_chk", !.tid = id]]
    /\ UNCHANGED <<tasks, events, running, queue, worker, handed, ran, calls,
                   repoCall, probe, closed, finished, pollingLoop>>

CheckerNext ==
    \/ CheckDependenciesCall(1)
    \/ CheckDependenciesLoad(1)
    \/ CheckDependenciesStep(1)

SpecChecker == CheckerInit /\ [][CheckerNext]_vars

(***************************************************************************)
(* SpecReload: a started scheduler on a store holding PENDING tasks while  *)
(* one caller makes UpdateTask calls with a status patch, any status, one  *)
(* after the other.                                                        *)
(***************************************************************************)
\* UpdateTask(id, {status: s}) is called.
StatusPatchCall(th) ==
    /\ thread[th].op = "idle"
    /\ ~Crashed
    /\ calls < MaxCalls
    /\ calls' = calls + 1
    /\ \E id \in ServiceIds, st \in Statuses :
         thread' = [thread EXCEPT ![th] =
                      [IdleThread EXCEPT !.op = "UpdateTask", !.pc = "up_load",
                                         !.tid = id, !.arg = st]]
    /\ UNCHANGED <<tasks, events, running, queue, worker, handed, ran,
                   repoCall, probe, closed, finished, pollingLoop>>

ReloadNext ==
    \/ StatusPatchCall(1)
    \/ UpdateTaskLoad(1)
    \/ UpdateTaskWrite(1)
    \/ PollTick(1)
    \/ ThreadStep(0 - 1)
    \/ \E w \in Workers : WorkerStep(w)

SpecReload == StartedInit /\ [][ReloadNext]_vars

(***************************************************************************)
(* The claims.                                                             *)
(***************************************************************************)
\* The transition table as the specification states it.
TablePairs ==
    {<<"UNSPECIFIED", "PENDING">>,
     <<"PENDING", "RUNNING">>, <<"PENDING", "CANCELLED">>,
     <<"RUNNING", "SUCCEEDED">>, <<"RUNNING", "FAILED">>,
     <<"RUNNING", "TIMEOUT">>, <<"RUNNING", "CANCELLED">>,
     <<"FAILED", "PENDING">>, <<"FAILED", "CANCELLED">>}

\* The status a reader of the store sees for an id: a row's status, or
\* UNSPECIFIED for an id with no row yet.
StoredStatus(store, id) ==
    IF id \in DOMAIN store THEN store[id].status ELSE "UNSPECIFIED"

\* The number of events of `log` that record the change from -> to.
CountEvents(log, from, to) ==
    Cardinality({i \in 1..Len(log) : log[i].from = from /\ log[i].to = to})

\* An event log replayed from UNSPECIFIED: each event starts where the
\* previous one ended and every step is in the transition table.
ValidChain(log) ==
    \A i \in 1..Len(log) :
        /\ log[i].from = (IF i = 1 THEN "UNSPECIFIED" ELSE log[i - 1].to)
        /\ CanTransition(log[i].from, log[i].to)

\* No TrySchedule call is between its claim and its Submit for this id.
NoSubmitPending(id) ==
    \A th \in Threads : ~(thread[th].pc = "ts_submit" /\ thread[th].tid = id)

\* C1: when TrySchedule calls race on the same PENDING id, the id's event
\* log holds exactly one PENDING -> RUNNING event and, once the winner is
\* past its Submit, the id has been handed to a worker pool exactly once and
\* the handler has run for it at most once.
C1_ClaimedIsHandedOnce ==
    \A t \in DOMAIN tasks :
        /\ CountEvents(events[t], "PENDING", "RUNNING") <= 1
        /\ handed[t] <= 1
        /\ ran[t] <= 1
        /\ (CountEvents(events[t], "PENDING", "RUNNING") = 1 /\ NoSubmitPending(t))
               => handed[t] = 1

\* C2: every step that changes a task's stored status changes it along a
\* pair of the transition table (a new row counts as leaving UNSPECIFIED).
C2_StatusChangesFollowTable ==
    [][\A t \in DOMAIN tasks' :
          StoredStatus(tasks', t) # StoredStatus(tasks, t)
              => CanTransition(StoredStatus(tasks, t), StoredStatus(tasks', t))]_vars

\* C3: whenever no facade call is in progress, every task's events replayed
\* from UNSPECIFIED form a valid chain that ends at the task's stored status.
C3_EventsReplayToStoredStatus ==
    (\A c \in Clients : thread[c].op = "idle")
        => \A t \in DOMAIN tasks :
               /\ ValidChain(events[t])
               /\ events[t] # <<>>
               /\ events[t][Len(events[t])].to = tasks[t].status

\* C4: every step that changes the stored status of an existing task appends
\* exactly one event to that task's log, and the event's (from, to) is the
\* change.
C4_StatusChangeHasItsEvent ==
    [][\A t \in DOMAIN tasks :
          tasks'[t].status # tasks[t].status
              => /\ Len(events'[t]) = Len(events[t]) + 1
                 /\ SubSeq(events'[t], 1, Len(events[t])) = events[t]
                 /\ events'[t][Len(events'[t])].from = tasks[t].status
                 /\ events'[t][Len(events'[t])].to = tasks'[t].status]_vars

\* C5: whenever an id is handed to a worker pool, every dependency of that
\* task has stored status SUCCEEDED at that moment.
C5_SubmittedHasSucceededDeps ==
    [][\A t \in DOMAIN tasks :
          handed'[t] > handed[t]
              => \A i \in 1..Len(tasks[t].deps) :
                     StoredStatus(tasks, tasks[t].deps[i]) = "SUCCEEDED"]_vars

\* C10: a CancelTask that found its task PENDING and raced only with the
\* scheduler (it is the only UpdateTask/CancelTask/RetryTask call made)
\* returns success, and the task is then CANCELLED.
C10_CancelOfPendingSucceeds ==
    \A c \in Clients :
        (thread[c].ret.op = "CancelTask" /\ thread[c].ret.from = "PENDING" /\ calls = 1)
            => /\ thread[c].ret.ok
               /\ tasks[thread[c].ret.tid].status = "CANCELLED"


\* The terminal set of the specification (FAILED is not in it).
TerminalSet == {"SUCCEEDED", "CANCELLED", "TIMEOUT"}

\* The last event of a log, or no event.
LastEvent(log) ==
    IF log = <<>> THEN Event("", "", "", "") ELSE log[Len(log)]

\* C11: when a pool goroutine that has run the handler comes to write the
\* outcome of a task whose stored status is CANCELLED, the write is refused
\* and dropped: the row and the event log are unchanged, the result is not
\* written (the goroutine goes back to the queue) and finishedCnt is not
\* incremented.
C11_CancelledTaskDiscardsWorkerWrite ==
    [][\A w \in Workers :
          (/\ worker[w].pc \in {"ok_cas", "fail_load", "fail_cas"}
           /\ worker'[w] # worker[w]
           /\ StoredStatus(tasks, worker[w].tid) = "CANCELLED")
              => /\ tasks' = tasks
                 /\ events' = events
                 /\ finished' = finished
                 /\ worker'[w].pc \in {"idle", "fail_cas"}
                 /\ worker[w].pc # "fail_load" => worker'[w].pc = "idle"]_vars

\* A task cancelled from RUNNING after its handler ran, whose goroutine has
\* since given up: CANCELLED, no result, nothing counted as finished.
C11_Witness ==
    \E t \in DOMAIN tasks :
        /\ tasks[t].status = "CANCELLED"
        /\ ran[t] = 1
        /\ Len(events[t]) = 3
        /\ LastEvent(events[t]).from = "RUNNING"
        /\ LastEvent(events[t]).to = "CANCELLED"
        /\ tasks[t].outputResult = ""
        /\ \A w \in Workers : worker[w].pc = "idle"
        /\ \A s \in Schedulers : finished[s] = 0 /\ queue[s] = <<>>

\* C12: a CancelTask that finds its task in a terminal status returns an
\* error and changes neither the row nor the event log; so the second of two
\* CancelTask calls on a task fails and the task keeps its one event into
\* CANCELLED.
C12_CancelOfTerminalIsRejected ==
    [][\A c \in Clients :
          (/\ thread[c].pc = "ca_load"
           /\ thread'[c] # thread[c]
           /\ StoredStatus(tasks, thread[c].tid) \in TerminalSet)
              => /\ thread'[c].pc = "idle"
                 /\ thread'[c].ret.op = "CancelTask"
                 /\ ~thread'[c].ret.ok
                 /\ tasks' = tasks
                 /\ events' = events]_vars

\* The second of two CancelTask calls has returned its error: the task is
\* CANCELLED with one event into CANCELLED.
C12_Witness ==
    \E c \in Clients :
        /\ thread[c].ret.op = "CancelTask"
        /\ thread[c].ret.from = "CANCELLED"
        /\ ~thread[c].ret.ok
        /\ calls = 2
        /\ tasks[thread[c].ret.tid].status = "CANCELLED"
        /\ Cardinality({i \in 1..Len(events[thread[c].ret.tid]) :
                           events[thread[c].ret.tid][i].to = "CANCELLED"}) = 1

\* C13: when the handler has failed for a RUNNING task whose retry_count
\* is below max_retries, the failure write moves the task RUNNING -> PENDING
\* with an event whose message starts with "retry:".
C13_FailureBelowLimitGoesToPending ==
    [][\A w \in Workers :
          (/\ worker[w].pc = "fail_cas"
           /\ worker'[w] # worker[w]
           /\ StoredStatus(tasks, worker[w].tid) = "RUNNING"
           /\ tasks[worker[w].tid].retryCount < tasks[worker[w].tid].maxRetries)
              => /\ tasks'[worker[w].tid].status = "PENDING"
                 /\ LastEvent(events'[worker[w].tid]).from = "RUNNING"
                 /\ LastEvent(events'[worker[w].tid]).to = "PENDING"
                 /\ LastEvent(events'[worker[w].tid]).message = "retry: handler error"]_vars

\* C14: a task that is FAILED after its handler failed on every run has
\* retry_count = max_retries + 1 and max_retries + 1 PENDING -> RUNNING
\* events, the last event being RUNNING -> FAILED.
C14_FailedAfterAllRetries ==
    \A t \in DOMAIN tasks :
        tasks[t].status = "FAILED"
            => /\ tasks[t].retryCount = tasks[t].maxRetries + 1
               /\ CountEvents(events[t], "PENDING", "RUNNING") = tasks[t].maxRetries + 1
               /\ LastEvent(events[t]).from = "RUNNING"
               /\ LastEvent(events[t]).to = "FAILED"

\* A RUNNING task that no queue, no pool goroutine and no TrySchedule call on
\* its way to Submit holds.
Orphaned(t) ==
    /\ StoredStatus(tasks, t) = "RUNNING"
    /\ \A s \in Schedulers : \A i \in 1..Len(queue[s]) : queue[s][i] # t
    /\ \A w \in Workers : ~(worker[w].pc # "idle" /\ worker[w].tid = t)
    /\ NoSubmitPending(t)

\* C15: a task the scheduler moved to RUNNING and whose id Submit rejected
\* does not stay that way: it is handed over later or leaves RUNNING.
C15_RejectedSubmitIsRecovered ==
    \A t \in BacklogIds : Orphaned(t) ~> ~Orphaned(t)

\* C16: once the scheduler has been stopped and started again it is
\* running with its pool goroutines alive, and no goroutine panics on the
\* closed queue.
C16_RestartLeavesLivePool ==
    /\ ~Crashed
    /\ \A s \in Schedulers :
           running[s] => \A w \in Workers : w[1] = s => worker[w].pc # "exited"

\* The handler has returned an error for task t.
HandlerFailed(t) ==
    \/ StoredStatus(tasks, t) = "FAILED"
    \/ \E w \in Workers : worker[w].tid = t /\ worker[w].pc \in {"fail_load", "fail_cas"}

\* C17: with the scheduler running, a task created without dependencies
\* eventually reaches SUCCEEDED, unless its handler fails.
C17_IndependentTaskSucceeds ==
    \A t \in ServiceIds :
        (t \in DOMAIN tasks /\ GetByID(tasks, t).deps = <<>>)
            ~> (StoredStatus(tasks, t) = "SUCCEEDED" \/ HandlerFailed(t))

\* A task without dependencies has been executed once and is SUCCEEDED.
C17_Witness ==
    \E t \in DOMAIN tasks :
        /\ tasks[t].deps = <<>>
        /\ tasks[t].status = "SUCCEEDED"
        /\ handed[t] = 1
        /\ ran[t] = 1

\* C18: once every upstream of a task with dependencies is SUCCEEDED, and
\* the scheduler keeps running, the task is claimed by a poll tick and
\* eventually reaches SUCCEEDED, unless its handler fails.
C18_DependentTaskSucceeds ==
    \A b \in ServiceIds :
        (/\ b \in DOMAIN tasks
         /\ GetByID(tasks, b).deps # <<>>
         /\ \A i \in 1..Len(GetByID(tasks, b).deps) :
                StoredStatus(tasks, GetByID(tasks, b).deps[i]) = "SUCCEEDED")
            ~> (StoredStatus(tasks, b) = "SUCCEEDED" \/ HandlerFailed(b))

\* A task with a dependency is SUCCEEDED: a poll tick claimed it after its
\* upstream succeeded.
C18_Witness ==
    \E b \in DOMAIN tasks :
        /\ tasks[b].deps # <<>>
        /\ tasks[b].status = "SUCCEEDED"
        /\ tasks[tasks[b].deps[1]].status = "SUCCEEDED"
        /\ ran[b] = 1
        /\ \E i \in 1..Len(events[b]) :
               events[b][i].from = "PENDING" /\ events[b][i].to = "RUNNING"

\* C19: a task without dependencies whose CreateTask call has returned and
\* which ran once and succeeded has the event log UNSPECIFIED -> PENDING,
\* PENDING -> RUNNING, RUNNING -> SUCCEEDED, in that order.
C19_EventLogOfSuccessfulTask ==
    \A t \in DOMAIN tasks :
        (/\ tasks[t].deps = <<>>
         /\ tasks[t].status = "SUCCEEDED"
         /\ ran[t] = 1
         /\ \A c \in Clients : ~(thread[c].op = "CreateTask" /\ thread[c].tid = t))
            => /\ Len(events[t]) = 3
               /\ events[t][1].from = "UNSPECIFIED" /\ events[t][1].to = "PENDING"
               /\ events[t][2].from = "PENDING" /\ events[t][2].to = "RUNNING"
               /\ events[t][3].from = "RUNNING" /\ events[t][3].to = "SUCCEEDED"

\* C20: every stored task has retry_count <= max_retries + 1.
C20_RetryCountBounded ==
    \A t \in DOMAIN tasks : tasks[t].retryCount <= tasks[t].maxRetries + 1

\* The row lets RetryTask through: it exists, is FAILED and has retries left.
RetryEligible(row) ==
    /\ row # NoTask
    /\ row.status = "FAILED"
    /\ row.retryCount < row.maxRetries

\* C21: RetryTask succeeds if and only if the task exists, is FAILED and has
\* retry_count < max_retries; it then sets the stored status to PENDING and
\* appends exactly one FAILED -> PENDING event. Otherwise it returns an error
\* and changes neither the tasks nor the event log.
C21_RetryTaskSucceedsIffCanRetry ==
    [][\A c \in Clients :
          LET t == thread[c]
              row == GetByID(tasks, t.tid)
          IN  /\ (t.pc = "re_load" /\ thread'[c] # t)
                    => /\ tasks' = tasks
                       /\ events' = events
                       /\ IF RetryEligible(row)
                          THEN thread'[c].pc = "re_cas"
                          ELSE /\ thread'[c].pc = "idle"
                               /\ thread'[c].ret.op = "RetryTask"
                               /\ ~thread'[c].ret.ok
              /\ (t.pc = "re_cas" /\ thread'[c] # t)
                    => /\ thread'[c].pc = "idle"
                       /\ thread'[c].ret.op = "RetryTask"
                       /\ thread'[c].ret.ok <=> RetryEligible(row)
                       /\ IF RetryEligible(row)
                          THEN /\ tasks' = [tasks EXCEPT ![t.tid].status = "PENDING"]
                               /\ Len(events'[t.tid]) = Len(events[t.tid]) + 1
                               /\ LastEvent(events'[t.tid]).from = "FAILED"
                               /\ LastEvent(events'[t.tid]).to = "PENDING"
                               /\ \A o \in TaskIds \ {t.tid} : events'[o] = events[o]
                               /\ SubSeq(events'[t.tid], 1, Len(events[t.tid])) = events[t.tid]
                          ELSE /\ tasks' = tasks
                               /\ events' = events]_vars

\* A first RetryTask succeeded (its FAILED -> PENDING event is in the log);
\* after another failure used up the retries a second RetryTask was refused.
C21_Witness ==
    \E c \in Clients :
        /\ thread[c].ret.op = "RetryTask"
        /\ ~thread[c].ret.ok
        /\ thread[c].ret.from = "FAILED"
        /\ tasks[thread[c].ret.tid].status = "FAILED"
        /\ tasks[thread[c].ret.tid].retryCount = tasks[thread[c].ret.tid].maxRetries
        /\ CountEvents(events[thread[c].ret.tid], "FAILED", "PENDING") = 1

\* C22 as stated: for every FAILED task with retry_count <= max_retries,
\* retry_count = max_retries included, CanRetry returns true.
C22_CanRetryUpToLimit ==
    (/\ probe.phase = "asked"
     /\ probe.task.status = "FAILED"
     /\ probe.task.retryCount <= probe.task.maxRetries) => probe.canRetry

\* C22, amended: for every FAILED task with retry_count < max_retries,
\* CanRetry returns true.
C22_CanRetryBelowLimit ==
    (/\ probe.phase = "asked"
     /\ probe.task.status = "FAILED"
     /\ probe.task.retryCount < probe.task.maxRetries) => probe.canRetry

\* CanRetry has been asked of a FAILED task one failure short of its limit.
C22_Witness ==
    /\ probe.phase = "asked"
    /\ probe.task.status = "FAILED"
    /\ probe.task.retryCount + 1 = probe.task.maxRetries
    /\ probe.canRetry

\* C24: IsTerminal(status) is true exactly for SUCCEEDED, CANCELLED and
\* TIMEOUT, and false for UNSPECIFIED, PENDING, RUNNING and FAILED.
C24_IsTerminalIsTheTerminalSet ==
    probe.phase = "asked" =>
        (probe.terminal <=> probe.task.status \in TerminalSet)

\* The timestamps of a row before a step (both unset before the row exists).
StampsBefore(store, id) ==
    IF id \in DOMAIN store THEN store[id] ELSE NewTask(<<>>, 0)

\* C23: for every task, started_at is set if and only if the task has at
\* some point been RUNNING, and completed_at is set if and only if it has at
\* some point been SUCCEEDED, CANCELLED, TIMEOUT or FAILED. Stated step by
\* step: after every step a stamp is set exactly when it was set before or
\* the stored status now is one of those that set it.
C23_TimestampsFollowStatusHistory ==
    [][\A t \in DOMAIN tasks' :
          /\ (tasks'[t].startedAt # NilTime)
                <=> \/ StampsBefore(tasks, t).startedAt # NilTime
                    \/ tasks'[t].status = "RUNNING"
          /\ (tasks'[t].completedAt # NilTime)
                <=> \/ StampsBefore(tasks, t).completedAt # NilTime
                    \/ tasks'[t].status \in {"SUCCEEDED", "CANCELLED", "TIMEOUT",
                                             "FAILED"}]_vars

\* C25: a CreateTask whose dependency list names an id with no row returns
\* an error and creates nothing: no row, no event, nothing submitted. So
\* every row that is created names as dependencies only ids that had a row
\* before it.
C25_MissingDependencyCreatesNothing ==
    [][/\ \A c \in Clients :
            (/\ thread[c].pc = "cr_deps"
             /\ thread'[c] # thread[c]
             /\ GetByID(tasks, thread[c].snap.deps[thread[c].di]) = NoTask)
                => /\ thread'[c].pc = "idle"
                   /\ thread'[c].ret.op = "CreateTask"
                   /\ ~thread'[c].ret.ok
                   /\ tasks' = tasks
                   /\ events' = events
                   /\ queue' = queue
                   /\ handed' = handed
       /\ \A t \in DOMAIN tasks' \ DOMAIN tasks :
            \A i \in 1..Len(tasks'[t].deps) : tasks'[t].deps[i] \in DOMAIN tasks]_vars

\* A CreateTask naming a missing dependency has returned its error on an
\* empty store, which is still empty, with no event and nothing queued.
C25_Witness ==
    \E c \in Clients :
        /\ thread[c].ret.op = "CreateTask"
        /\ ~thread[c].ret.ok
        /\ tasks = <<>>
        /\ events = NoEvents
        /\ \A s \in Schedulers : queue[s] = <<>>

\* How many times id t sits in a pool's channel, and how many pool
\* goroutines are inside the handler with it.
QueuedCount(t) ==
    Cardinality({<<s, i>> \in Schedulers \X (1..(3 * Cardinality(TaskIds))) :
                    i <= Len(queue[s]) /\ queue[s][i] = t})

HandlingCount(t) ==
    Cardinality({w \in Workers : worker[w].pc = "ex_load" /\ worker[w].tid = t})

C27_SubmitIsBoundedOffer ==
    [][\A c \in Clients :
          (/\ thread[c].op = "idle"
           /\ thread'[c] # thread[c]
           /\ thread'[c].ret.op = "Submit")
              => LET s == SchedOf(c)
                     id == thread'[c].ret.tid
                 IN  /\ thread'[c].pc = "idle"
                     /\ Len(queue[s]) < 2 * WorkerCount
                            => /\ thread'[c].ret.ok
                               /\ queue'[s] = Append(queue[s], id)
                     /\ Len(queue[s]) >= 2 * WorkerCount
                            => /\ ~thread'[c].ret.ok
                               /\ queue'[s] = queue[s]
                     /\ Len(queue'[s]) <= 2 * WorkerCount]_vars

\* A Submit has been rejected with the channel holding 2N ids, and it still
\* holds exactly those.
C27_Witness ==
    \E c \in Clients :
        /\ thread[c].ret.op = "Submit"
        /\ ~thread[c].ret.ok
        /\ Len(queue[SchedOf(c)]) = 2 * WorkerCount
        /\ handed[thread[c].ret.tid] = 0

\* C28: a CancelTask that finds its task PENDING, RUNNING or FAILED (the
\* statuses from which the table allows CANCELLED) succeeds, and the task is
\* then CANCELLED with the event of that change last in its log; it is
\* rejected only for SUCCEEDED, CANCELLED and TIMEOUT.
C28_CancelFollowsTheTable ==
    \A c \in Clients :
        (thread[c].ret.op = "CancelTask" /\ thread[c].ret.tid \in DOMAIN tasks)
            => LET r == thread[c].ret
               IN  /\ r.from \in {"PENDING", "RUNNING", "FAILED"}
                          => /\ r.ok
                             /\ tasks[r.tid].status = "CANCELLED"
                             /\ LastEvent(events[r.tid]).from = r.from
                             /\ LastEvent(events[r.tid]).to = "CANCELLED"
                   /\ r.from \in TerminalSet => ~r.ok

\* C29: the writes that are not status changes leave every stored status as
\* it is: the repo.Update of an UpdateTask without a status patch and the
\* repo.Update with which handleTaskSuccess stores the result, also when
\* another actor changed the status after the row was read.
C29_FieldWritesKeepStoredStatus ==
    [][/\ \A c \in Clients :
            (/\ thread[c].pc = "up_write"
             /\ thread[c].arg = "none"
             /\ thread'[c] # thread[c])
                => \A t \in DOMAIN tasks : tasks'[t].status = tasks[t].status
       /\ \A w \in Workers :
            (worker[w].pc = "ok_update" /\ worker'[w] # worker[w])
                => \A t \in DOMAIN tasks : tasks'[t].status = tasks[t].status]_vars

\* C30: an UpdateTask with a status patch succeeds if and only if the row
\* exists and the transition table allows (stored status -> patch status);
\* it then stores the patch status. When the pair is not allowed it returns
\* an error and the stored task is unchanged in every field, also when the
\* patch carries an error_message beside the status.
C30_StatusPatchFollowsTheTable ==
    [][\A c \in Clients :
          LET t == thread[c]
              row == GetByID(tasks, t.tid)
              allowed == row # NoTask /\ <<row.status, t.arg>> \in TablePairs
          IN  /\ (t.pc = "up_load" /\ t.arg # "none" /\ thread'[c] # t)
                    => /\ tasks' = tasks
                       /\ events' = events
                       /\ IF allowed
                          THEN thread'[c].pc = "up_write"
                          ELSE /\ thread'[c].pc = "idle"
                               /\ thread'[c].ret.op = "UpdateTask"
                               /\ ~thread'[c].ret.ok
              /\ (t.pc = "up_write" /\ t.arg # "none" /\ thread'[c] # t)
                    => /\ thread'[c].pc = "idle"
                       /\ thread'[c].ret.op = "UpdateTask"
                       /\ thread'[c].ret.ok
                       /\ tasks'[t.tid].status = t.arg]_vars

\* The first call, an UpdateTask whose status patch the table does not allow
\* for a PENDING task, has returned its error: the row is as NewTask made it.
C30_Witness ==
    \E c \in Clients :
        /\ thread[c].ret.op = "UpdateTask"
        /\ ~thread[c].ret.ok
        /\ calls = 1
        /\ thread[c].ret.tid \in DOMAIN tasks
        /\ tasks[thread[c].ret.tid].status = "PENDING"
        /\ tasks[thread[c].ret.tid].errorMessage = ""

\* The positions of a dependency list whose upstream has no row or is not
\* SUCCEEDED.
Unmet(store, deps) ==
    {i \in 1..Len(deps) :
        deps[i] \notin DOMAIN store \/ store[deps[i]].status # "SUCCEEDED"}

\* What the claim says CheckDependencies(id) returns on a store.
ExpectedCheck(store, id) ==
    IF id \notin DOMAIN store THEN "error"
    ELSE LET deps == store[id].deps
             bad == Unmet(store, deps)
         IN  IF bad = {} THEN "ready"
             ELSE LET k == CHOOSE i \in bad : \A j \in bad : i <= j
                  IN  IF deps[k] \notin DOMAIN store THEN "error" ELSE "wait"

\* C31 CheckDependencies(id) returns an error for an id with no row and
\* ready for a task without dependencies; otherwise it reads the upstreams
\* in declared order, every one before the one it is reading being
\* SUCCEEDED, and returns an error at the first upstream with no row, wait
\* at the first one that is not SUCCEEDED whatever comes after it, and ready
\* only when every upstream has a row and is SUCCEEDED.
C31_CheckDependenciesFirstUnmetDecides ==
    \A c \in Clients :
        /\ thread[c].ret.op = "CheckDependencies" =>
               /\ thread[c].ret.from = ExpectedCheck(tasks, thread[c].ret.tid)
               /\ thread[c].ret.ok <=>
                     /\ thread[c].ret.tid \in DOMAIN tasks
                     /\ Unmet(tasks, tasks[thread[c].ret.tid].deps) = {}
        /\ thread[c].op = "CheckDependencies" /\ thread[c].pc = "ts_dep" =>
               /\ thread[c].deps = tasks[thread[c].tid].deps
               /\ \A i \in 1..(thread[c].di - 1) :
                     GetByID(tasks, thread[c].deps[i]).status = "SUCCEEDED"

\* A call returned wait for a task whose first upstream is stored and not
\* SUCCEEDED and whose second upstream has no row.
C31_Witness ==
    \E c \in Clients :
        /\ thread[c].ret.op = "CheckDependencies"
        /\ thread[c].ret.from = "wait"
        /\ LET deps == tasks[thread[c].ret.tid].deps
           IN  /\ Len(deps) = 2
               /\ deps[1] \in DOMAIN tasks
               /\ deps[2] \notin DOMAIN tasks

\* C32: a TrySchedule call that finds the scheduler not running (the poll
\* loop's or the one CreateTask makes) returns at once: no row, event or
\* queue changes and the id is not handed to the pool; and as long as the
\* scheduler has never been started every created task is PENDING and has
\* been handed to no pool.
C32_NotRunningSchedulesNothing ==
    /\ [](~running[1] /\ ~closed[1] =>
            \A t \in DOMAIN tasks : tasks[t].status = "PENDING" /\ handed[t] = 0)
    /\ [][\A th \in Threads :
            (/\ thread[th].pc = "ts_running"
             /\ ~running[SchedOf(th)]
             /\ thread'[th] # thread[th])
            => /\ tasks' = tasks /\ events' = events
               /\ queue' = queue /\ handed' = handed
               /\ thread'[th].pc \in {"idle", "ts_running"}]_vars

\* After a Stop has returned, with the scheduler still stopped, a CreateTask
\* of a task without dependencies has returned and the task is PENDING,
\* with its creation event only, and in no queue.
C32_Witness ==
    \E c \in Clients :
        /\ closed[1] /\ ~running[1]
        /\ thread[c].op = "idle"
        /\ thread[c].ret.op = "CreateTask"
        /\ thread[c].ret.ok
        /\ LET t == thread[c].ret.tid
           IN  /\ t \in DOMAIN tasks
               /\ tasks[t].deps = <<>>
               /\ tasks[t].status = "PENDING"
               /\ Len(events[t]) = 1
               /\ handed[t] = 0

\* C33: a pool goroutine that picks up an id whose row is gone (GetByID
\* returns no task and no error) abandons the id and waits for the next
\* one, leaving rows and events as they are; it does not panic.
C33_WorkerAbandonsMissingRow ==
    [][\A w \in Workers :
          (/\ worker[w].pc = "ex_load"
           /\ GetByID(tasks, worker[w].tid) = NoTask
           /\ worker'[w] # worker[w])
          => /\ worker'[w] = IdleWorker
             /\ tasks' = tasks /\ events' = events]_vars

\* C34: under any sequence of Start and Stop calls a scheduler has at most
\* one poll loop at a time: never two pollingLoop goroutines blocked in
\* their select on a context that has not been cancelled.
C34_AtMostOnePollLoop ==
    \A s \in Schedulers : pollingLoop[s].waiting <= 1

\* C35: no TrySchedule call, of a poll tick or of CreateTask, that a Stop
\* has overtaken goes on to Submit on the queue that Stop closed: no Submit
\* is performed while the scheduler is stopped and its queue closed.
C35_NoSubmitAfterStopClosedQueue ==
    [][\A th \in Threads :
          (thread[th].pc = "ts_submit" /\ thread'[th] # thread[th])
          => ~(closed[SchedOf(th)] /\ ~running[SchedOf(th)])]_vars

\* C39: when a call to Stop returns, on a running scheduler or on one that
\* was never started, every goroutine of the scheduler's pool has left its
\* loop and the pool's queue is empty.
C39_StopLeavesNoWorker ==
    [][\A th \in Clients :
          (/\ thread'[th] # thread[th]
           /\ thread'[th].op = "idle"
           /\ thread'[th].ret.op = "Stop")
          => /\ \A w \in Workers :
                    w[1] = SchedOf(th) => worker'[w].pc = "exited"
             /\ queue'[SchedOf(th)] = <<>>]_vars

\* C36: no task is claimed PENDING -> RUNNING, and so run by the handler,
\* more than max_retries + 1 times, whatever the handler's failures and the
\* RetryTask calls.
C36_ClaimsBoundedByMaxRetries ==
    \A t \in DOMAIN tasks :
        /\ CountEvents(events[t], "PENDING", "RUNNING") <= tasks[t].maxRetries + 1
        /\ ran[t] <= tasks[t].maxRetries + 1

\* C38: a pool goroutine runs the handler for an id only when the row it
\* reloads is RUNNING; for a row in any other status it runs nothing and
\* changes no row and no event.
C38_HandlerRunsOnlyForRunning ==
    [][\A w \in Workers :
          (worker[w].pc = "ex_load" /\ worker'[w] # worker[w])
          => IF StoredStatus(tasks, worker[w].tid) = "RUNNING"
             THEN TRUE
             ELSE /\ ran' = ran
                  /\ worker'[w] = IdleWorker
                  /\ tasks' = tasks /\ events' = events]_vars

\* The ids a task's dependency list names.
Upstreams(store, t) ==
    IF t \in DOMAIN store
    THEN {store[t].deps[i] : i \in 1..Len(store[t].deps)}
    ELSE {}

\* The ids reached from the set `from` along at most n dependency edges
\* (one edge at least).
RECURSIVE ReachedWithin(_, _, _)
ReachedWithin(store, from, n) ==
    IF n = 0 THEN {}
    ELSE LET next == UNION {Upstreams(store, t) : t \in from}
         IN  next \cup ReachedWithin(store, next, n - 1)

\* C40: in every reachable state every dependency of a stored task has a
\* row and no task depends on itself through any chain of dependencies;
\* and no step changes the dependency list of a stored task.
C40_DependencyGraphAcyclic ==
    /\ [](\A t \in DOMAIN tasks :
            /\ Upstreams(tasks, t) \subseteq DOMAIN tasks
            /\ t \notin ReachedWithin(tasks, {t}, Cardinality(DOMAIN tasks)))
    /\ [][\A t \in DOMAIN tasks :
            t \in DOMAIN tasks' /\ tasks'[t].deps = tasks[t].deps]_vars

\* A CreateTask naming a dependency has returned its task, which is stored
\* with that dependency.
C40_Witness ==
    \E c \in Clients :
        /\ thread[c].ret.op = "CreateTask"
        /\ thread[c].ret.ok
        /\ thread[c].ret.tid \in DOMAIN tasks
        /\ tasks[thread[c].ret.tid].deps # <<>>

\* Task t is PENDING and every one of its dependencies is SUCCEEDED.
ReadyToClaim(t) ==
    /\ StoredStatus(tasks, t) = "PENDING"
    /\ \A d \in Upstreams(tasks, t) : StoredStatus(tasks, d) = "SUCCEEDED"

\* C37: while the scheduler runs, every PENDING task whose dependencies are
\* all SUCCEEDED is eventually claimed (it leaves PENDING), however many
\* PENDING tasks blocked on their dependencies the store holds. (Stated for
\* the tasks that are not blocked; the others are never ready.)
C37_ReadyTaskEventuallyClaimed ==
    \A t \in UnblockedIds :
        (running[1] /\ ReadyToClaim(t)) ~> (StoredStatus(tasks, t) # "PENDING")

\* C6: CanTransition(from, to) is true exactly for the pairs of the
\* transition table (UNSPECIFIED->PENDING, PENDING->{RUNNING, CANCELLED},
\* RUNNING->{SUCCEEDED, FAILED, TIMEOUT, CANCELLED}, FAILED->{PENDING,
\* CANCELLED}) and false for every other pair of statuses.
C6_CanTransitionIsTheTable ==
    probe.phase = "done" =>
        (probe.can <=> <<probe.task.status, probe.to>> \in TablePairs)

C6_Witness ==
    /\ probe.phase = "done"
    /\ probe.task.status = "FAILED"
    /\ probe.to = "PENDING"
    /\ probe.can

\* C7: for every task and every target whose pair is not in the table (every
\* target, its own status included, for a SUCCEEDED, CANCELLED or TIMEOUT
\* task) Transition returns an error and leaves every field of the task
\* unchanged.
C7_InvalidTransitionLeavesTask ==
    (probe.phase = "done" /\ <<probe.task.status, probe.to>> \notin TablePairs) =>
        (probe.err /\ probe.after = probe.task)

C7_Witness ==
    /\ probe.phase = "done"
    /\ probe.task.status = "SUCCEEDED"
    /\ probe.to = "SUCCEEDED"
    /\ probe.err
    /\ probe.after = probe.task

\* C8: update_status(id, expected_from, new_to) sets the status to new_to if
\* and only if the row exists and its status equals expected_from; otherwise
\* it returns an error and leaves the store unchanged. A PENDING->RUNNING
\* attempt on a RUNNING row fails.
C8_UpdateStatusIsCAS ==
    repoCall.op = "UpdateStatus" =>
        LET b == repoCall.before
            id == repoCall.id
            hit == id \in DOMAIN b /\ b[id].status = repoCall.from
        IN  /\ repoCall.ok <=> hit
            /\ repoCall.ok =>
                 /\ tasks[id].status = repoCall.to
                 /\ tasks = [b EXCEPT ![id].status = repoCall.to]
            /\ ~repoCall.ok => tasks = b
            /\ (/\ id \in DOMAIN b
                /\ b[id].status = "RUNNING"
                /\ repoCall.from = "PENDING"
                /\ repoCall.to = "RUNNING") => ~repoCall.ok

\* A second PENDING->RUNNING attempt, after the first one succeeded, failed.
C8_Witness ==
    /\ repoCall.op = "UpdateStatus"
    /\ repoCall.n = 2
    /\ repoCall.id \in DOMAIN repoCall.before
    /\ repoCall.before[repoCall.id].status = "RUNNING"
    /\ repoCall.from = "PENDING"
    /\ repoCall.to = "RUNNING"
    /\ ~repoCall.ok
    /\ tasks[repoCall.id].status = "RUNNING"

\* C9: update_status_with_event(id, from, to, operator, message) either
\* changes the status from `from` to `to` and appends exactly one event with
\* that from, to, operator and message, or (status differs, or no row)
\* changes nothing and appends nothing; no state shows one effect alone.
C9_StatusAndEventTogether ==
    repoCall.op = "UpdateStatusWithEvent" =>
        LET b == repoCall.before
            be == repoCall.beforeEvents
            id == repoCall.id
            hit == id \in DOMAIN b /\ b[id].status = repoCall.from
            ev == Event(repoCall.from, repoCall.to, repoCall.operator,
                        repoCall.message)
        IN  \/ /\ hit
               /\ repoCall.ok
               /\ tasks = [b EXCEPT ![id].status = repoCall.to]
               /\ events = [be EXCEPT ![id] = Append(@, ev)]
            \/ /\ ~hit
               /\ ~repoCall.ok
               /\ tasks = b
               /\ events = be

C9_Witness ==
    /\ repoCall.op = "UpdateStatusWithEvent"
    /\ repoCall.ok
    /\ repoCall.from = "PENDING"
    /\ repoCall.to = "RUNNING"
    /\ tasks[repoCall.id].status = "RUNNING"
    /\ Len(events[repoCall.id]) = Len(repoCall.beforeEvents[repoCall.id]) + 1

====
